---- MODULE Spec2Model ----
(***************************************************************************)
(* A model of the mongolite document engine: the in-memory store, the      *)
(* engine operations that read and write it, the save/load of the data     *)
(* file and the reader/writer lock around the operations.                  *)
(*                                                                         *)
(* Go slices are modelled as they are: a bson.D is a slice header          *)
(* (addr, len) into a backing array held in the heap `mem`; copying a      *)
(* bson.D copies the header only.  cap(d) is the length of the backing     *)
(* array.  append allocates an array of exactly the needed length when     *)
(* the capacity is exhausted (the spare capacity Go may add is read by no  *)
(* header).  bson.A values are kept by value.                              *)
(***************************************************************************)
EXTENDS Integers, Sequences, FiniteSets, TLC

\* Bounds of the model.
MaxCalls == 2
NumConns == 2
MaxSkip == 2
MaxLimit == 2

MaxInt32 == 2147483647

\* F applied to the value of x: a local name for a value read several times.
With(x, F(_)) == F(x)

----------------------------------------------------------------------------
\* Values (interface{} holding a BSON value).

Null == [t |-> "null"]
I32(n) == [t |-> "int32", n |-> n]
I64(n) == [t |-> "int64", n |-> n]
Dbl(n) == [t |-> "double", n |-> n]
Str(s) == [t |-> "string", s |-> s]
Bool(b) == [t |-> "bool", b |-> b]
Oid(n) == [t |-> "oid", n |-> n]
Arr(e) == [t |-> "array", e |-> e]
\* A bson.D slice header; NilDoc is both the nil slice and bson.D{}.
DocRef(a, l) == [t |-> "doc", addr |-> a, len |-> l]
NilDoc == DocRef(0, 0)
\* A bson.D by value (what a document looks like to a reader).
DocVal(f) == [t |-> "docval", f |-> f]
E(k, v) == [k |-> k, v |-> v]

\* strings.Split(path, "."), on the field names of the model.
Split(k) ==
  CASE k = "a.b" -> <<"a", "b">>
    [] k = "a.$x" -> <<"a", "$x">>
    [] k = "a.c" -> <<"a", "c">>
    [] k = "n.k" -> <<"n", "k">>
    [] k = "n.j" -> <<"n", "j">>
    [] OTHER -> <<k>>

\* The names whose first byte is '$'.
DollarNames == {"$and", "$or", "$nor", "$not", "$set", "$unset", "$inc", "$mul",
                "$min", "$max", "$rename", "$push", "$pull", "$addToSet",
                "$currentDate", "$eq", "$ne", "$gt", "$gte", "$lt", "$lte",
                "$in", "$nin", "$exists", "$type", "$all", "$size",
                "$elemMatch", "$x", "$bogus"}

\* The fields a header reads.
Fields(m, d) == IF d.len = 0 THEN << >> ELSE SubSeq(m[d.addr], 1, d.len)

\* The first index of key k in d, 0 when absent.
IndexOfKey(m, d, k) ==
  LET hits == {i \in 1..d.len : m[d.addr][i].k = k}
  IN IF hits = {} THEN 0 ELSE CHOOSE i \in hits : \A j \in hits : i <= j

\* The value a reader sees: documents followed through the heap.
RECURSIVE Pure(_, _)
Pure(m, v) ==
  IF v.t = "doc"
  THEN DocVal([i \in 1..v.len |-> E(m[v.addr][i].k, Pure(m, m[v.addr][i].v))])
  ELSE v

\* A fresh backing array holding arr.
Alloc(m, arr) ==
  IF Len(arr) = 0 THEN [m |-> m, d |-> NilDoc]
  ELSE [m |-> Append(m, arr), d |-> DocRef(Len(m) + 1, Len(arr))]

\* Go's append(d, e): in place when the capacity allows, else a new array.
GoAppend(m, d, e) ==
  IF d.addr # 0 /\ d.len < Len(m[d.addr])
  THEN [m |-> [m EXCEPT ![d.addr][d.len + 1] = e], d |-> DocRef(d.addr, d.len + 1)]
  ELSE Alloc(m, Fields(m, d) \o <<e>>)

\* A document received by value (from the wire or a caller) placed in the heap.
RECURSIVE Materialise(_, _)
RECURSIVE MaterialiseFields(_, _, _)
MaterialiseFields(m, fs, acc) ==
  IF fs = << >> THEN [m |-> m, f |-> acc]
  ELSE LET r == Materialise(m, Head(fs).v)
       IN MaterialiseFields(r.m, Tail(fs), Append(acc, E(Head(fs).k, r.d)))
Materialise(m, v) ==
  IF v.t = "docval"
  THEN LET r == MaterialiseFields(m, v.f, << >>) IN Alloc(r.m, r.f)
  ELSE [m |-> m, d |-> v]

----------------------------------------------------------------------------
\* query.go: comparison and path access.

isNumeric(v) == v.t \in {"int32", "int64", "double"}

\* Byte-lexicographic order of the strings of the model.
StrRank(s) ==
  CASE s = "" -> 0
    [] s = "x" -> 1
    [] s = "y" -> 2
    [] OTHER -> 3

toFloat64(v) == IF isNumeric(v) THEN v.n ELSE 0

toInt64(v) == IF isNumeric(v) THEN v.n ELSE 0

compareValues(a, b) ==
  IF isNumeric(a) /\ isNumeric(b)
  THEN IF toFloat64(a) < toFloat64(b) THEN -1
       ELSE IF toFloat64(a) > toFloat64(b) THEN 1 ELSE 0
  ELSE IF a.t = "string" /\ b.t = "string"
  THEN IF StrRank(a.s) < StrRank(b.s) THEN -1
       ELSE IF StrRank(a.s) > StrRank(b.s) THEN 1 ELSE 0
  ELSE IF a.t = "bool" /\ b.t = "bool"
  THEN IF a.b = b.b THEN 0 ELSE IF ~a.b THEN -1 ELSE 1
  ELSE IF a.t = "oid" /\ b.t = "oid"
  THEN IF a.n < b.n THEN -1 ELSE IF a.n > b.n THEN 1 ELSE 0
  ELSE 0

\* a and b are values as a reader sees them (Pure).
valuesEqual(a, b) ==
  IF a.t = "null" /\ b.t = "null" THEN TRUE
  ELSE IF a.t = "null" \/ b.t = "null" THEN FALSE
  ELSE IF isNumeric(a) /\ isNumeric(b) THEN compareValues(a, b) = 0
  ELSE a = b

\* lookupField on a document as a reader sees it (a DocVal).
IndexOfKeyV(fs, k) ==
  LET hits == {i \in 1..Len(fs) : fs[i].k = k}
  IN IF hits = {} THEN 0 ELSE CHOOSE i \in hits : \A j \in hits : i <= j

RECURSIVE lookupParts(_, _)
lookupParts(cur, parts) ==
  IF parts = << >> THEN [v |-> cur, ok |-> TRUE]
  ELSE IF cur.t # "docval" THEN [v |-> Null, ok |-> FALSE]
  ELSE LET i == IndexOfKeyV(cur.f, Head(parts))
       IN IF i = 0 THEN [v |-> Null, ok |-> FALSE]
          ELSE lookupParts(cur.f[i].v, Tail(parts))

lookupField(doc, path) == lookupParts(doc, Split(path))

\* GetField on a document in the heap: the value found is the stored one,
\* a nested document is returned as its slice header.
RECURSIVE GetParts(_, _, _)
GetParts(m, cur, parts) ==
  IF parts = << >> THEN [v |-> cur, ok |-> TRUE]
  ELSE IF cur.t # "doc" THEN [v |-> Null, ok |-> FALSE]
  ELSE LET i == IndexOfKey(m, cur, Head(parts))
       IN IF i = 0 THEN [v |-> Null, ok |-> FALSE]
          ELSE GetParts(m, m[cur.addr][i].v, Tail(parts))

GetField(m, doc, path) == GetParts(m, doc, Split(path))

\* The matcher, on documents as a reader sees them.
matchType(val, typeVal) ==
  IF typeVal.t # "string" THEN FALSE
  ELSE CASE typeVal.s = "string" -> val.t = "string"
         [] typeVal.s = "int" -> isNumeric(val)
         [] typeVal.s = "double" -> val.t = "double"
         [] typeVal.s = "bool" -> val.t = "bool"
         [] typeVal.s = "object" -> val.t = "docval"
         [] typeVal.s = "array" -> val.t = "array"
         [] typeVal.s = "null" -> val.t = "null"
         [] OTHER -> FALSE

RECURSIVE MatchDoc(_, _)
RECURSIVE matchOperators(_, _, _)
RECURSIVE applyOperator(_, _, _, _)

applyOperator(docVal, exists, op, opVal) ==
  CASE op = "$eq" -> exists /\ valuesEqual(docVal, opVal)
    [] op = "$ne" -> ~exists \/ ~valuesEqual(docVal, opVal)
    [] op = "$gt" -> exists /\ compareValues(docVal, opVal) > 0
    [] op = "$gte" -> exists /\ compareValues(docVal, opVal) >= 0
    [] op = "$lt" -> exists /\ compareValues(docVal, opVal) < 0
    [] op = "$lte" -> exists /\ compareValues(docVal, opVal) <= 0
    [] op = "$in" ->
         IF opVal.t # "array" THEN FALSE
         ELSE IF ~exists THEN FALSE
         ELSE \E i \in 1..Len(opVal.e) : valuesEqual(docVal, opVal.e[i])
    [] op = "$nin" ->
         IF opVal.t # "array" THEN TRUE
         ELSE IF ~exists THEN TRUE
         ELSE ~\E i \in 1..Len(opVal.e) : valuesEqual(docVal, opVal.e[i])
    [] op = "$exists" -> IF opVal.t # "bool" THEN FALSE ELSE exists = opVal.b
    [] op = "$type" -> IF ~exists THEN FALSE ELSE matchType(docVal, opVal)
    [] op = "$all" ->
         IF opVal.t # "array" \/ docVal.t # "array" THEN FALSE
         ELSE \A i \in 1..Len(opVal.e) :
                \E j \in 1..Len(docVal.e) : valuesEqual(docVal.e[j], opVal.e[i])
    [] op = "$size" ->
         IF docVal.t # "array" THEN FALSE ELSE Len(docVal.e) = toInt64(opVal)
    [] op = "$elemMatch" ->
         IF opVal.t # "docval" \/ docVal.t # "array" THEN FALSE
         ELSE \E j \in 1..Len(docVal.e) :
                docVal.e[j].t = "docval" /\ MatchDoc(docVal.e[j], opVal)
    [] op = "$not" ->
         IF opVal.t # "docval" THEN FALSE
         ELSE ~matchOperators(docVal, exists, opVal)
    [] OTHER -> FALSE

matchOperators(docVal, exists, ops) ==
  \A i \in 1..Len(ops.f) : applyOperator(docVal, exists, ops.f[i].k, ops.f[i].v)

matchFieldValue(docVal, exists, filterVal) ==
  IF filterVal.t = "docval" /\ Len(filterVal.f) > 0 /\ filterVal.f[1].k \in DollarNames
  THEN matchOperators(docVal, exists, filterVal)
  ELSE IF ~exists THEN filterVal.t = "null"
  ELSE valuesEqual(docVal, filterVal)

\* One top-level clause of a filter.
matchClause(doc, key, val) ==
  CASE key = "$and" ->
         IF val.t # "array" THEN FALSE
         ELSE \A i \in 1..Len(val.e) :
                val.e[i].t = "docval" /\ MatchDoc(doc, val.e[i])
    [] key = "$or" ->
         IF val.t # "array" THEN FALSE
         ELSE \E i \in 1..Len(val.e) :
                val.e[i].t = "docval" /\ MatchDoc(doc, val.e[i])
    [] key = "$nor" ->
         IF val.t # "array" THEN FALSE
         ELSE ~\E i \in 1..Len(val.e) :
                val.e[i].t = "docval" /\ MatchDoc(doc, val.e[i])
    [] key = "$not" ->
         IF val.t # "docval" THEN FALSE ELSE ~MatchDoc(doc, val)
    [] OTHER ->
         LET r == lookupField(doc, key)
         IN matchFieldValue(r.v, r.ok, val)

MatchDoc(doc, filter) ==
  \A i \in 1..Len(filter.f) : matchClause(doc, filter.f[i].k, filter.f[i].v)

RECURSIVE SetParts(_, _, _, _)
SetParts(m, doc, parts, val) ==
  LET i == IndexOfKey(m, doc, Head(parts)) IN
  IF Len(parts) = 1
  THEN IF i # 0
       THEN [m |-> [m EXCEPT ![doc.addr][i].v = val], d |-> doc]
       ELSE GoAppend(m, doc, E(Head(parts), val))
  ELSE IF i # 0
       THEN LET e == m[doc.addr][i]
                sub == IF e.v.t = "doc" THEN e.v ELSE NilDoc
                r == SetParts(m, sub, Tail(parts), val)
            IN [m |-> [r.m EXCEPT ![doc.addr][i].v = r.d], d |-> doc]
       ELSE LET r == SetParts(m, NilDoc, Tail(parts), val)
            IN GoAppend(r.m, doc, E(Head(parts), r.d))

SetField(m, doc, path, val) == SetParts(m, doc, Split(path), val)

\* append(doc[:i], doc[i+1:]...): the tail is shifted down in place.
RemoveAt(m, doc, i) ==
  [m |-> [m EXCEPT ![doc.addr] =
            [j \in 1..Len(m[doc.addr]) |->
               IF j >= i /\ j < doc.len THEN m[doc.addr][j + 1] ELSE m[doc.addr][j]]],
   d |-> DocRef(doc.addr, doc.len - 1)]

RECURSIVE UnsetParts(_, _, _)
UnsetParts(m, doc, parts) ==
  LET i == IndexOfKey(m, doc, Head(parts)) IN
  IF i = 0 THEN [m |-> m, d |-> doc]
  ELSE IF Len(parts) = 1 THEN RemoveAt(m, doc, i)
  ELSE LET e == m[doc.addr][i] IN
       IF e.v.t # "doc" THEN [m |-> m, d |-> doc]
       ELSE LET r == UnsetParts(m, e.v, Tail(parts))
            IN [m |-> [r.m EXCEPT ![doc.addr][i].v = r.d], d |-> doc]

UnsetField(m, doc, path) == UnsetParts(m, doc, Split(path))

----------------------------------------------------------------------------
\* The updater.  A result is [m, d, err]; on an error (err # "") d is nil but
\* m keeps whatever was already written in place.

Date(n) == [t |-> "date", n |-> n]
Ok(r) == [m |-> r.m, d |-> r.d, err |-> ""]
Fail(m, e) == [m |-> m, d |-> NilDoc, err |-> e]

isInt(v) == v.t \in {"int32", "int64"}

\* Removes from arr the elements $pull names.
pullElems(arr, val) ==
  LET keep(e) == IF val.t = "docval"
                 THEN ~(e.t = "docval" /\ MatchDoc(e, val))
                 ELSE ~valuesEqual(e, val)
      F[i \in 0..Len(arr)] ==
        IF i = 0 THEN << >>
        ELSE IF keep(arr[i]) THEN Append(F[i - 1], arr[i]) ELSE F[i - 1]
  IN F[Len(arr)]

\* incField without the branch that keeps integers integers.
incFieldFloat(m, doc, path, val) ==
  LET cur == GetField(m, doc, path) IN
  IF ~cur.ok THEN Ok(SetField(m, doc, path, val))
  ELSE IF ~isNumeric(cur.v) THEN Fail(m, "$inc: not numeric")
  ELSE Ok(SetField(m, doc, path, Dbl(toFloat64(cur.v) + toFloat64(val))))

incField(m, doc, path, val) ==
  LET cur == GetField(m, doc, path) IN
  IF ~cur.ok THEN Ok(SetField(m, doc, path, val))
  ELSE IF ~isNumeric(cur.v) THEN Fail(m, "$inc: not numeric")
  ELSE IF isInt(cur.v) /\ isInt(val)
  THEN Ok(SetField(m, doc, path, I64(toInt64(cur.v) + toInt64(val))))
  ELSE Ok(SetField(m, doc, path, Dbl(toFloat64(cur.v) + toFloat64(val))))

mulField(m, doc, path, val) ==
  LET cur == GetField(m, doc, path) IN
  IF ~cur.ok THEN Ok(SetField(m, doc, path, I64(0)))
  ELSE IF ~isNumeric(cur.v) THEN Fail(m, "$mul: not numeric")
  ELSE IF isInt(cur.v) /\ isInt(val)
  THEN Ok(SetField(m, doc, path, I64(toInt64(cur.v) * toInt64(val))))
  ELSE Ok(SetField(m, doc, path, Dbl(toFloat64(cur.v) * toFloat64(val))))

pushField(m, doc, path, val) ==
  LET cur == GetField(m, doc, path) IN
  IF ~cur.ok THEN Ok(SetField(m, doc, path, Arr(<<Pure(m, val)>>)))
  ELSE IF cur.v.t # "array" THEN Fail(m, "$push: not an array")
  ELSE Ok(SetField(m, doc, path, Arr(Append(cur.v.e, Pure(m, val)))))

pullField(m, doc, path, val) ==
  LET cur == GetField(m, doc, path) IN
  IF ~cur.ok THEN [m |-> m, d |-> doc, err |-> ""]
  ELSE IF cur.v.t # "array" THEN Fail(m, "$pull: not an array")
  ELSE Ok(SetField(m, doc, path, Arr(pullElems(cur.v.e, Pure(m, val)))))

addToSetField(m, doc, path, val) ==
  LET cur == GetField(m, doc, path) IN
  IF ~cur.ok THEN Ok(SetField(m, doc, path, Arr(<<Pure(m, val)>>)))
  ELSE IF cur.v.t # "array" THEN Fail(m, "$addToSet: not an array")
  ELSE IF \E i \in 1..Len(cur.v.e) : valuesEqual(cur.v.e[i], Pure(m, val))
  THEN [m |-> m, d |-> doc, err |-> ""]
  ELSE Ok(SetField(m, doc, path, Arr(Append(cur.v.e, Pure(m, val)))))

\* One sub-field f of operator op applied to doc.
applyField(m, doc, op, f, now) ==
  CASE op = "$set" -> Ok(SetField(m, doc, f.k, f.v))
    [] op = "$unset" -> Ok(UnsetField(m, doc, f.k))
    [] op = "$inc" -> incField(m, doc, f.k, f.v)
    [] op = "$mul" -> mulField(m, doc, f.k, f.v)
    [] op = "$min" ->
         LET cur == GetField(m, doc, f.k) IN
         IF ~cur.ok \/ compareValues(Pure(m, f.v), Pure(m, cur.v)) < 0
         THEN Ok(SetField(m, doc, f.k, f.v))
         ELSE [m |-> m, d |-> doc, err |-> ""]
    [] op = "$max" ->
         LET cur == GetField(m, doc, f.k) IN
         IF ~cur.ok \/ compareValues(Pure(m, f.v), Pure(m, cur.v)) > 0
         THEN Ok(SetField(m, doc, f.k, f.v))
         ELSE [m |-> m, d |-> doc, err |-> ""]
    [] op = "$rename" ->
         IF f.v.t # "string" THEN Fail(m, "$rename target must be a string")
         ELSE LET cur == GetField(m, doc, f.k) IN
              IF ~cur.ok THEN [m |-> m, d |-> doc, err |-> ""]
              ELSE LET u == UnsetField(m, doc, f.k)
                   IN Ok(SetField(u.m, u.d, f.v.s, cur.v))
    [] op = "$push" -> pushField(m, doc, f.k, f.v)
    [] op = "$pull" -> pullField(m, doc, f.k, f.v)
    [] op = "$addToSet" -> addToSetField(m, doc, f.k, f.v)
    [] op = "$currentDate" -> Ok(SetField(m, doc, f.k, Date(now)))
    [] OTHER -> Fail(m, "unsupported update operator")

\* The sub-fields fs of operator op applied in order to the result r so far:
\* the first error ends the update.
RECURSIVE applyFields(_, _, _, _)
applyFields(r, op, fs, now) ==
  IF r.err # "" \/ fs = << >> THEN r
  ELSE applyFields(applyField(r.m, r.d, op, Head(fs), now), op, Tail(fs), now)

KnownOps == {"$set", "$unset", "$inc", "$mul", "$min", "$max", "$rename",
             "$push", "$pull", "$addToSet", "$currentDate"}

\* The operators ops of an update document applied in order to the result r.
RECURSIVE applyOps(_, _, _)
applyOps(r, ops, now) ==
  IF r.err # "" \/ ops = << >> THEN r
  ELSE IF Head(ops).v.t # "doc"
  THEN Fail(r.m, "update operator requires a document")
  ELSE IF Head(ops).k \notin KnownOps THEN Fail(r.m, "unsupported update operator")
  ELSE applyOps(applyFields(r, Head(ops).k, Fields(r.m, Head(ops).v), now),
                Tail(ops), now)

\* update is the header of the update document.
ApplyUpdate(m, doc, update, now) ==
  LET u == Fields(m, update) IN
  IF Len(u) > 0 /\ u[1].k # "" /\ u[1].k \notin DollarNames
  THEN LET id == GetField(m, doc, "_id")
           result == Alloc(m, u)
       IN IF id.ok THEN Ok(SetField(result.m, result.d, "_id", id.v))
          ELSE Ok(result)
  ELSE applyOps([m |-> m, d |-> doc, err |-> ""], u, now)

----------------------------------------------------------------------------
\* The store: database name -> collection name -> Collection.  Documents is
\* a sequence of slice headers, Indexes a sequence of IndexSpec.

EmptyMap == [x \in {} |-> x]
NewStore == EmptyMap
Collection(docs, idx) == [Documents |-> docs, Indexes |-> idx]
IndexSpec(name, keys, unique) == [Name |-> name, Keys |-> keys, Unique |-> unique]

Put(f, k, v) == [x \in DOMAIN f \cup {k} |-> IF x = k THEN v ELSE f[x]]
Drop(f, k) == [x \in DOMAIN f \ {k} |-> f[x]]

HasColl(s, db, coll) == db \in DOMAIN s /\ coll \in DOMAIN s[db]

GetOrCreateDB(s, db) == IF db \in DOMAIN s THEN s ELSE Put(s, db, EmptyMap)

\* GetOrCreateDB(db).GetOrCreateColl(coll), as the store it leaves.
GetOrCreateColl(s, db, coll) ==
  LET s1 == GetOrCreateDB(s, db)
  IN IF coll \in DOMAIN s1[db] THEN s1
     ELSE Put(s1, db, Put(s1[db], coll, Collection(<< >>, << >>)))

SetColl(s, db, coll, c) == Put(s, db, Put(s[db], coll, c))

\* The store as a reader sees it: every document followed through the heap.
PureDocs(m, docs) == [i \in 1..Len(docs) |-> Pure(m, docs[i])]
PureStore(m, s) ==
  [db \in DOMAIN s |-> [c \in DOMAIN s[db] |->
     Collection(PureDocs(m, s[db][c].Documents), s[db][c].Indexes)]]

----------------------------------------------------------------------------
\* store.go: sorting, saving and loading.

\* The rank of docIDSortKey(doc) in the byte order of strings: "" for a
\* missing _id, the hex of an ObjectID, a string itself, fmt's %v otherwise
\* (digits < "<nil>" < "[...]" < "false" < "true" < "x" < "y"; a fresh
\* ObjectID's hex begins with the digit 6).
docIDSortKey(doc) ==
  LET r == IndexOfKeyV(doc.f, "_id")
      v == doc.f[r].v
  IN IF r = 0 THEN 0
     ELSE CASE v.t = "oid" -> 10 * 6 + 1 + v.n
            [] v.t = "string" -> IF v.s = "" THEN 0 ELSE 400 + StrRank(v.s)
            [] v.t \in {"int32", "int64", "double", "date"} -> 10 * v.n
            [] v.t = "null" -> 100
            [] v.t \in {"docval", "array"} -> 150
            [] v.t = "bool" -> IF v.b THEN 300 ELSE 200
            [] OTHER -> 0

\* sort.SliceStable by docIDSortKey: a stable insertion of each document.
RECURSIVE InsertSorted(_, _, _)
InsertSorted(m, sorted, d) ==
  IF sorted = << >> THEN <<d>>
  ELSE LET last == sorted[Len(sorted)]
       IN IF docIDSortKey(Pure(m, d)) < docIDSortKey(Pure(m, last))
          THEN Append(InsertSorted(m, SubSeq(sorted, 1, Len(sorted) - 1), d), last)
          ELSE Append(sorted, d)

RECURSIVE SortByID(_, _)
SortByID(m, docs) ==
  IF docs = << >> THEN << >>
  ELSE InsertSorted(m, SortByID(m, SubSeq(docs, 1, Len(docs) - 1)), docs[Len(docs)])

sortStore(m, s) ==
  [db \in DOMAIN s |-> [c \in DOMAIN s[db] |->
     Collection(SortByID(m, s[db][c].Documents), s[db][c].Indexes)]]

\* bson.MarshalExtJSON(v, canonical=false): relaxed Extended JSON.  Both
\* integer widths are written as a bare number, a double with a decimal
\* point, an ObjectID and a datetime in their $-wrappers.
RECURSIVE ToExtJSON(_)
ToExtJSON(v) ==
  CASE v.t \in {"int32", "int64"} -> [j |-> "number", n |-> v.n]
    [] v.t = "double" -> [j |-> "decimal", n |-> v.n]
    [] v.t = "oid" -> [j |-> "$oid", n |-> v.n]
    [] v.t = "date" -> [j |-> "$date", n |-> v.n]
    [] v.t = "string" -> [j |-> "string", s |-> v.s]
    [] v.t = "bool" -> [j |-> "bool", b |-> v.b]
    [] v.t = "null" -> [j |-> "null"]
    [] v.t = "array" -> [j |-> "array", e |-> [i \in 1..Len(v.e) |-> ToExtJSON(v.e[i])]]
    [] v.t = "docval" ->
         [j |-> "object", f |-> [i \in 1..Len(v.f) |-> E(v.f[i].k, ToExtJSON(v.f[i].v))]]

\* bson.UnmarshalExtJSON(data, canonical=false): a bare integer becomes an
\* int32 when it fits, an int64 otherwise.
RECURSIVE FromExtJSON(_)
FromExtJSON(x) ==
  CASE x.j = "number" ->
         IF x.n >= -MaxInt32 - 1 /\ x.n <= MaxInt32 THEN I32(x.n) ELSE I64(x.n)
    [] x.j = "decimal" -> Dbl(x.n)
    [] x.j = "$oid" -> Oid(x.n)
    [] x.j = "$date" -> Date(x.n)
    [] x.j = "string" -> Str(x.s)
    [] x.j = "bool" -> Bool(x.b)
    [] x.j = "null" -> Null
    [] x.j = "array" -> Arr([i \in 1..Len(x.e) |-> FromExtJSON(x.e[i])])
    [] x.j = "object" -> DocVal([i \in 1..Len(x.f) |-> E(x.f[i].k, FromExtJSON(x.f[i].v))])

IndexToJSON(ix) ==
  [name |-> ix.Name, key |-> ToExtJSON(DocVal(ix.Keys)), unique |-> ix.Unique]
IndexFromJSON(x) == IndexSpec(x.name, FromExtJSON(x.key).f, x.unique)

\* The content of the data file for store s.
marshalStoreJSON(m, s) ==
  [db \in DOMAIN s |-> [c \in DOMAIN s[db] |->
     [documents |-> [i \in 1..Len(s[db][c].Documents) |->
                       ToExtJSON(Pure(m, s[db][c].Documents[i]))],
      indexes |-> [i \in 1..Len(s[db][c].Indexes) |->
                     IndexToJSON(s[db][c].Indexes[i])]]]]

\* A file: absent, holding a complete marshalled store, or holding the
\* first n pieces of one whose write was cut short.
NoFile == [exists |-> FALSE]
FileOf(text) == [exists |-> TRUE, text |-> text]
Partial(text, n) == [exists |-> TRUE, cut |-> n, of |-> text]
IsPartial(f) == f.exists /\ "cut" \in DOMAIN f

\* LoadStore fails on a file that is neither empty nor a complete store.
LoadFails(f) == IsPartial(f) /\ f.cut > 0

\* LoadStore, as the store a reader of the new engine sees.
LoadStore(f) ==
  IF ~f.exists \/ IsPartial(f) THEN NewStore
  ELSE [db \in DOMAIN f.text |-> [c \in DOMAIN f.text[db] |->
          Collection([i \in 1..Len(f.text[db][c].documents) |->
                        FromExtJSON(f.text[db][c].documents[i])],
                     [i \in 1..Len(f.text[db][c].indexes) |->
                        IndexFromJSON(f.text[db][c].indexes[i])])]]

\* SaveStore: sorts the live store in place, then replaces the file unless
\* the write of the temp file or the rename fails.
SaveStore(m, s, f, ioOk) ==
  LET sorted == sortStore(m, s)
  IN [s |-> sorted,
      file |-> IF ioOk THEN FileOf(marshalStoreJSON(m, sorted)) ELSE f,
      err |-> IF ioOk THEN "" ELSE "io"]

----------------------------------------------------------------------------
\* index.go and the helpers of engine.go.

indexKeysMatch(m, a, b, keys) ==
  \A i \in 1..Len(keys) :
     valuesEqual(Pure(m, GetField(m, a, keys[i].k).v), Pure(m, GetField(m, b, keys[i].k).v))

\* CheckUniqueIndex looking only at the newest stored document.
CheckUniqueIndexNewest(m, docs, indexes, newDoc) ==
  IF \E x \in 1..Len(indexes) :
        /\ indexes[x].Unique
        /\ docs # << >>
        /\ indexKeysMatch(m, docs[Len(docs)], newDoc, indexes[x].Keys)
  THEN "DuplicateKeyError" ELSE ""

\* "" when newDoc may be inserted, else the duplicate-key error.
CheckUniqueIndex(m, docs, indexes, newDoc) ==
  IF \E x \in 1..Len(indexes) :
        /\ indexes[x].Unique
        /\ \E i \in 1..Len(docs) : indexKeysMatch(m, docs[i], newDoc, indexes[x].Keys)
  THEN "DuplicateKeyError" ELSE ""

DefaultIndexName(keys) ==
  LET F[i \in 0..Len(keys)] ==
        IF i = 0 THEN ""
        ELSE F[i - 1] \o (IF i > 1 THEN "_" ELSE "") \o keys[i].k \o "_"
               \o (IF toInt64(keys[i].v) >= 0 THEN "1" ELSE "-1")
  IN F[Len(keys)]

\* ensureID: doc itself when it has an _id, else a new array with a fresh
\* ObjectID in front.  used tells whether an ObjectID was generated.
ensureID(m, doc, oid) ==
  IF IndexOfKey(m, doc, "_id") # 0 THEN [m |-> m, d |-> doc, used |-> FALSE]
  ELSE LET r == Alloc(m, <<E("_id", Oid(oid))>> \o Fields(m, doc))
       IN [m |-> r.m, d |-> r.d, used |-> TRUE]

\* FilterDocs: the headers of the matching documents, in order.
FilterDocs(m, docs, filter) ==
  LET F[i \in 0..Len(docs)] ==
        IF i = 0 THEN << >>
        ELSE IF MatchDoc(Pure(m, docs[i]), filter) THEN Append(F[i - 1], docs[i])
        ELSE F[i - 1]
  IN F[Len(docs)]

compareDocs(a, b, sortSpec) ==
  LET F[i \in 1..Len(sortSpec) + 1] ==
        IF i > Len(sortSpec) THEN 0
        ELSE LET cmp == compareValues(lookupField(a, sortSpec[i].k).v,
                                      lookupField(b, sortSpec[i].k).v)
             IN IF cmp = 0 THEN F[i + 1]
                ELSE IF toInt64(sortSpec[i].v) < 0 THEN -cmp ELSE cmp
  IN F[1]

\* The inner loop of SortDocs: docs[j] sinks while its left neighbour is greater.
RECURSIVE sinkDoc(_, _, _, _)
sinkDoc(m, docs, j, sortSpec) ==
  IF j > 1 /\ compareDocs(Pure(m, docs[j - 1]), Pure(m, docs[j]), sortSpec) > 0
  THEN sinkDoc(m, [docs EXCEPT ![j - 1] = docs[j], ![j] = docs[j - 1]], j - 1, sortSpec)
  ELSE docs

RECURSIVE sortFrom(_, _, _, _)
sortFrom(m, docs, i, sortSpec) ==
  IF i > Len(docs) THEN docs
  ELSE sortFrom(m, sinkDoc(m, docs, i, sortSpec), i + 1, sortSpec)

SortDocs(m, docs, sortSpec) ==
  IF Len(sortSpec) = 0 THEN docs ELSE sortFrom(m, docs, 2, sortSpec)

\* The seed of an upsert: every filter field whose name does not begin
\* with '$', set by SetField.  Indexing byte 0 of an empty name panics.
RECURSIVE seedFrom(_, _, _)
seedFrom(m, doc, fs) ==
  IF fs = << >> THEN [m |-> m, d |-> doc, err |-> ""]
  ELSE IF Head(fs).k = "" THEN Fail(m, "panic")
  ELSE IF Head(fs).k \in DollarNames THEN seedFrom(m, doc, Tail(fs))
  ELSE LET v == Materialise(m, Head(fs).v)
           r == SetField(v.m, doc, Head(fs).k, v.d)
       IN seedFrom(r.m, r.d, Tail(fs))

----------------------------------------------------------------------------
\* engine.go: the operations, as functions of the heap m, the store s and
\* the arguments.  A result names the store and heap the call leaves, what
\* it returns, and whether it reached e.save().

RECURSIVE insertLoop(_, _, _, _, _, _)
insertLoop(m, docs, indexes, batch, ids, oid) ==
  IF batch = << >> THEN [m |-> m, docs |-> docs, ids |-> ids, err |-> "", oid |-> oid]
  ELSE LET v == Materialise(m, Head(batch))
           e == ensureID(v.m, v.d, oid)
           id == Pure(e.m, GetField(e.m, e.d, "_id").v)
           oid2 == IF e.used THEN oid + 1 ELSE oid
           err == CheckUniqueIndex(e.m, docs, indexes, e.d)
       IN IF err # ""
          THEN [m |-> e.m, docs |-> docs, ids |-> << >>, err |-> err, oid |-> oid2]
          ELSE insertLoop(e.m, Append(docs, e.d), indexes, Tail(batch),
                          Append(ids, id), oid2)

InsertOp(m, s, db, coll, batch, oid) ==
  LET s1 == GetOrCreateColl(s, db, coll)
      c == s1[db][coll]
      r == insertLoop(m, c.Documents, c.Indexes, batch, << >>, oid)
  IN [s |-> SetColl(s1, db, coll, Collection(r.docs, c.Indexes)), m |-> r.m,
      ids |-> r.ids, err |-> r.err, oid |-> r.oid, save |-> r.err = ""]

\* The loop's state st after ApplyUpdate returned r for document i.
updated(st, i, r) ==
  IF r.err # ""
  THEN [st EXCEPT !.m = r.m, !.matched = @ + 1, !.err = r.err]
  ELSE [st EXCEPT !.m = r.m, !.docs[i] = r.d, !.matched = @ + 1, !.modified = @ + 1]

\* Update's loop over c.Documents from document i on, st its state so far.
RECURSIVE updateLoop(_, _, _, _, _, _)
updateLoop(st, i, filter, update, multi, now) ==
  IF i > Len(st.docs) \/ st.err # "" \/ (~multi /\ st.matched > 0) THEN st
  ELSE IF ~MatchDoc(Pure(st.m, st.docs[i]), filter)
  THEN updateLoop(st, i + 1, filter, update, multi, now)
  ELSE updateLoop(updated(st, i, ApplyUpdate(st.m, st.docs[i], update, now)),
                  i + 1, filter, update, multi, now)

\* The upsert branch shared by Update and FindAndModify: the new document.
upsertDoc(m, filter, update, now, oid) ==
  With(seedFrom(m, NilDoc, filter.f), LAMBDA seed :
    IF seed.err # "" THEN [m |-> seed.m, d |-> NilDoc, err |-> seed.err, used |-> FALSE]
    ELSE With(ApplyUpdate(seed.m, seed.d, update, now), LAMBDA a :
      IF a.err # "" THEN [m |-> a.m, d |-> NilDoc, err |-> a.err, used |-> FALSE]
      ELSE With(ensureID(a.m, a.d, oid), LAMBDA e :
        [m |-> e.m, d |-> e.d, err |-> "", used |-> e.used])))

UpdateOp(m, s, db, coll, filter, update, multi, upsert, now, oid) ==
  With(GetOrCreateColl(s, db, coll), LAMBDA s1 :
  With(Materialise(m, update), LAMBDA u :
  With(updateLoop([m |-> u.m, docs |-> s1[db][coll].Documents, matched |-> 0,
                   modified |-> 0, err |-> ""], 1, filter, u.d, multi, now), LAMBDA l :
    IF l.err # ""
    THEN [s |-> SetColl(s1, db, coll, Collection(l.docs, s1[db][coll].Indexes)),
          m |-> l.m, matched |-> l.matched, modified |-> l.modified,
          upsertedID |-> Null, err |-> l.err, oid |-> oid, save |-> FALSE]
    ELSE IF l.matched = 0 /\ upsert
    THEN With(upsertDoc(l.m, filter, u.d, now, oid), LAMBDA n :
      IF n.err # ""
      THEN [s |-> SetColl(s1, db, coll, Collection(l.docs, s1[db][coll].Indexes)),
            m |-> n.m, matched |-> 0, modified |-> 0,
            upsertedID |-> Null, err |-> n.err, oid |-> oid, save |-> FALSE]
      ELSE With(Pure(n.m, GetField(n.m, n.d, "_id").v), LAMBDA id :
        [s |-> SetColl(s1, db, coll,
                       Collection(Append(l.docs, n.d), s1[db][coll].Indexes)),
         m |-> n.m, matched |-> 0, modified |-> 0, upsertedID |-> id,
         err |-> "", oid |-> IF n.used THEN oid + 1 ELSE oid,
         save |-> id # Null]))
    ELSE [s |-> SetColl(s1, db, coll, Collection(l.docs, s1[db][coll].Indexes)),
          m |-> l.m, matched |-> l.matched, modified |-> l.modified,
          upsertedID |-> Null, err |-> "", oid |-> oid, save |-> l.matched > 0])))

\* The rebuilt document vector of Delete and the number removed.
deleteLoop(m, docs, filter, multi) ==
  LET F[i \in 0..Len(docs)] ==
        IF i = 0 THEN [kept |-> << >>, deleted |-> 0]
        ELSE LET p == F[i - 1] IN
             IF p.deleted > 0 /\ ~multi THEN [p EXCEPT !.kept = Append(@, docs[i])]
             ELSE IF MatchDoc(Pure(m, docs[i]), filter)
             THEN [p EXCEPT !.deleted = @ + 1]
             ELSE [p EXCEPT !.kept = Append(@, docs[i])]
  IN F[Len(docs)]

DeleteOp(m, s, db, coll, filter, multi) ==
  IF ~HasColl(s, db, coll)
  THEN [s |-> s, m |-> m, deleted |-> 0, err |-> "", save |-> FALSE]
  ELSE LET c == s[db][coll]
           r == deleteLoop(m, c.Documents, filter, multi)
       IN IF r.deleted > 0
          THEN [s |-> SetColl(s, db, coll, Collection(r.kept, c.Indexes)), m |-> m,
                deleted |-> r.deleted, err |-> "", save |-> TRUE]
          ELSE [s |-> s, m |-> m, deleted |-> 0, err |-> "", save |-> FALSE]

\* CopyDoc: a deep copy through bson.Marshal and bson.Unmarshal.
CopyDoc(m, doc) == Materialise(m, Pure(m, doc))

\* The index in docs of the first document whose _id equals target's.
indexByID(m, docs, target) ==
  LET tid == Pure(m, GetField(m, target, "_id").v)
      hits == {i \in 1..Len(docs) :
                 valuesEqual(tid, Pure(m, GetField(m, docs[i], "_id").v))}
  IN IF hits = {} THEN 0 ELSE CHOOSE i \in hits : \A j \in hits : i <= j

RemoveIndex(seq, i) == SubSeq(seq, 1, i - 1) \o SubSeq(seq, i + 1, Len(seq))

\* ret is the sequence of documents returned: empty for nil.
FindAndModifyOp(m, s, db, coll, filter, sort, update, remove, returnNew, upsert, now, oid) ==
  With(GetOrCreateColl(s, db, coll), LAMBDA s1 :
  With(s1[db][coll], LAMBDA c :
  With(SortDocs(m, FilterDocs(m, c.Documents, filter), sort), LAMBDA matches :
  With(Materialise(m, update), LAMBDA u :
    IF Len(matches) = 0
    THEN IF ~upsert \/ remove
         THEN [s |-> s1, m |-> m, ret |-> << >>, err |-> "", oid |-> oid, save |-> FALSE]
         ELSE With(upsertDoc(u.m, filter, u.d, now, oid), LAMBDA n :
           IF n.err # ""
           THEN [s |-> s1, m |-> n.m, ret |-> << >>, err |-> n.err, oid |-> oid,
                 save |-> FALSE]
           ELSE [s |-> SetColl(s1, db, coll,
                               Collection(Append(c.Documents, n.d), c.Indexes)),
                 m |-> n.m, ret |-> <<n.d>>, err |-> "",
                 oid |-> IF n.used THEN oid + 1 ELSE oid, save |-> TRUE])
    ELSE With(indexByID(m, c.Documents, matches[1]), LAMBDA i :
      IF remove
      THEN [s |-> SetColl(s1, db, coll,
                          Collection(RemoveIndex(c.Documents, i), c.Indexes)),
            m |-> m, ret |-> <<c.Documents[i]>>, err |-> "", oid |-> oid,
            save |-> TRUE]
      ELSE With(CopyDoc(u.m, c.Documents[i]), LAMBDA pre :
           With(ApplyUpdate(pre.m, c.Documents[i], u.d, now), LAMBDA r :
        IF r.err # ""
        THEN [s |-> s1, m |-> r.m, ret |-> << >>, err |-> r.err, oid |-> oid,
              save |-> FALSE]
        ELSE [s |-> SetColl(s1, db, coll,
                            Collection([c.Documents EXCEPT ![i] = r.d], c.Indexes)),
              m |-> r.m, ret |-> IF returnNew THEN <<r.d>> ELSE <<pre.d>>,
              err |-> "", oid |-> oid, save |-> TRUE]))))))) 

\* Find with the limit taken before the skip.
FindOpLimitFirst(m, s, db, coll, filter, sort, skip, limit) ==
  IF ~HasColl(s, db, coll) THEN << >>
  ELSE LET results == SortDocs(m, FilterDocs(m, s[db][coll].Documents, filter), sort)
           limited == IF limit > 0 /\ limit < Len(results) THEN SubSeq(results, 1, limit)
                      ELSE results
       IN IF skip > 0
          THEN IF skip >= Len(limited) THEN << >>
               ELSE SubSeq(limited, skip + 1, Len(limited))
          ELSE limited

\* Find: the headers of the selected documents.
FindOp(m, s, db, coll, filter, sort, skip, limit) ==
  IF ~HasColl(s, db, coll) THEN << >>
  ELSE LET results == SortDocs(m, FilterDocs(m, s[db][coll].Documents, filter), sort)
           skipped == IF skip > 0
                      THEN IF skip >= Len(results) THEN << >>
                           ELSE SubSeq(results, skip + 1, Len(results))
                      ELSE results
       IN IF limit > 0 /\ limit < Len(skipped) THEN SubSeq(skipped, 1, limit)
          ELSE skipped

CountOp(m, s, db, coll, filter) ==
  IF ~HasColl(s, db, coll) THEN 0
  ELSE Len(FilterDocs(m, s[db][coll].Documents, filter))

\* projectDocs in inclusion mode: _id unless the spec gives it 0, then the
\* fields the spec gives 1, in the order of the spec.
includeFields(doc, spec) ==
  LET id == lookupField(doc, "_id")
      includeID == \A i \in 1..Len(spec) :
                      ~(spec[i].k = "_id" /\ toInt64(spec[i].v) = 0)
      F[i \in 0..Len(spec)] ==
        IF i = 0 THEN IF includeID /\ id.ok THEN <<E("_id", id.v)>> ELSE << >>
        ELSE IF spec[i].k # "_id" /\ toInt64(spec[i].v) = 1
                /\ lookupField(doc, spec[i].k).ok
        THEN Append(F[i - 1], E(spec[i].k, lookupField(doc, spec[i].k).v))
        ELSE F[i - 1]
  IN DocVal(F[Len(spec)])

\* projectDocs in exclusion mode: every field but those the spec gives 0.
excludeFields(doc, spec) ==
  LET excludeSet == {spec[i].k : i \in {j \in 1..Len(spec) : toInt64(spec[j].v) = 0}}
  IN DocVal(SelectSeq(doc.f, LAMBDA e : e.k \notin excludeSet))

\* projectDocs, on documents read as values.
projectDocs(docs, spec) ==
  LET isInclusion == \E i \in 1..Len(spec) :
                        spec[i].k # "_id" /\ toInt64(spec[i].v) = 1
      isExclusion == \E i \in 1..Len(spec) :
                        spec[i].k # "_id" /\ toInt64(spec[i].v) = 0
  IN [i \in 1..Len(docs) |->
        IF isInclusion THEN includeFields(docs[i], spec)
        ELSE IF isExclusion THEN excludeFields(docs[i], spec)
        ELSE docs[i]]

\* The strings of the model whose first byte is '$' and that name a path, and
\* v[1:] of each.
DollarPaths == {"$k", "$a", "$_id"}

TrimDollar(s) ==
  CASE s = "$k" -> "k"
    [] s = "$a" -> "a"
    [] s = "$_id" -> "_id"
    [] OTHER -> ""

\* resolveGroupID: a "$path" string is looked up (nil when missing), a
\* document is resolved field by field, anything else is itself.
RECURSIVE resolveGroupID(_, _)
resolveGroupID(doc, expr) ==
  CASE expr.t = "string" ->
         IF expr.s \in DollarPaths THEN lookupField(doc, TrimDollar(expr.s)).v
         ELSE expr
    [] expr.t = "docval" ->
         DocVal([i \in 1..Len(expr.f) |->
                   E(expr.f[i].k, resolveGroupID(doc, expr.f[i].v))])
    [] OTHER -> expr

\* fmt.Sprintf("%v", v): a number prints its digits, a string its bytes, nil
\* is <nil>, a bson.D prints as a slice of {Key Value} structs and a bson.A as
\* a slice.  The doubles of the model are whole numbers, which %v prints
\* without a fraction.
RECURSIVE Sprint(_)
Sprint(v) ==
  CASE isNumeric(v) -> ToString(v.n)
    [] v.t = "string" -> v.s
    [] v.t = "bool" -> IF v.b THEN "true" ELSE "false"
    [] v.t = "null" -> "<nil>"
    [] v.t = "oid" -> "ObjectID(\"" \o ToString(v.n) \o "\")"
    [] v.t = "docval" ->
         LET F[i \in 0..Len(v.f)] ==
               IF i = 0 THEN ""
               ELSE F[i - 1] \o (IF i = 1 THEN "" ELSE " ")
                    \o "{" \o v.f[i].k \o " " \o Sprint(v.f[i].v) \o "}"
         IN "[" \o F[Len(v.f)] \o "]"
    [] v.t = "array" ->
         LET F[i \in 0..Len(v.e)] ==
               IF i = 0 THEN ""
               ELSE F[i - 1] \o (IF i = 1 THEN "" ELSE " ") \o Sprint(v.e[i])
         IN "[" \o F[Len(v.e)] \o "]"

\* computeAccumulator for $sum, $first, $last and $push; $avg, $min, $max and
\* $addToSet are not among the group specs of the model.
computeAccumulator(docs, op, field) ==
  LET fieldPath == IF field.t = "string" /\ field.s \in DollarPaths
                   THEN TrimDollar(field.s) ELSE ""
      got == [i \in 1..Len(docs) |-> lookupField(docs[i], fieldPath)]
      present == SelectSeq(got, LAMBDA g : g.ok)
      Sum[i \in 0..Len(present)] ==
        IF i = 0 THEN 0 ELSE Sum[i - 1] + toFloat64(present[i].v)
  IN CASE op = "$sum" ->
            IF fieldPath = "" THEN I64(Len(docs) * toInt64(field))
            ELSE IF \A i \in 1..Len(present) : isInt(present[i].v)
            THEN I64(Sum[Len(present)])
            ELSE Dbl(Sum[Len(present)])
       [] op = "$first" -> IF Len(docs) = 0 THEN Null ELSE got[1].v
       [] op = "$last" -> IF Len(docs) = 0 THEN Null ELSE got[Len(docs)].v
       [] op = "$push" -> Arr([i \in 1..Len(docs) |-> got[i].v])
       [] OTHER -> Null

\* groupDocs, on documents read as values: the groups are indexed by the
\* printed form of the resolved key, a group keeps the key of the document
\* that opened it.
groupDocs(docs, spec) ==
  LET idAt == {i \in 1..Len(spec) : spec[i].k = "_id"}
      idExpr == IF idAt = {} THEN Null
                ELSE spec[CHOOSE i \in idAt : \A j \in idAt : i <= j].v
      key == [i \in 1..Len(docs) |-> resolveGroupID(docs[i], idExpr)]
      keyStr == [i \in 1..Len(docs) |-> Sprint(key[i])]
      opens == SelectSeq([i \in 1..Len(docs) |-> i],
                         LAMBDA i : \A j \in 1..(i - 1) : keyStr[j] # keyStr[i])
      members(g) == SelectSeq([i \in 1..Len(docs) |-> i],
                              LAMBDA i : keyStr[i] = keyStr[opens[g]])
      gdocs(g) == [n \in 1..Len(members(g)) |-> docs[members(g)[n]]]
      accs == SelectSeq(spec, LAMBDA e : e.k # "_id" /\ e.v.t = "docval"
                                         /\ Len(e.v.f) > 0)
  IN [g \in 1..Len(opens) |->
        DocVal(<<E("_id", key[opens[g]])>> \o
               [a \in 1..Len(accs) |->
                  E(accs[a].k, computeAccumulator(gdocs(g), accs[a].v.f[1].k,
                                                  accs[a].v.f[1].v))])]


\* One stage of RunPipeline applied to the result r = [docs, err] so far.
\* $unwind, $count and $lookup are not among the pipelines of the model.  A
\* negative $skip or $limit is a slice out of range.
runStage(m, r, stage) ==
  IF r.err # "" THEN r
  ELSE IF Len(stage.f) # 1
  THEN [docs |-> << >>, err |-> "pipeline stage must have exactly one field"]
  ELSE LET stageOp == stage.f[1].k
           stageVal == stage.f[1].v
           n == toInt64(stageVal)
       IN CASE stageOp = "$match" ->
                 IF stageVal.t # "docval"
                 THEN [docs |-> << >>, err |-> "$match requires a document"]
                 ELSE [docs |-> FilterDocs(m, r.docs, stageVal), err |-> ""]
            [] stageOp = "$limit" ->
                 IF n < 0 THEN [docs |-> << >>, err |-> "panic"]
                 ELSE IF n < Len(r.docs) THEN [docs |-> SubSeq(r.docs, 1, n), err |-> ""]
                 ELSE r
            [] stageOp = "$skip" ->
                 IF n >= Len(r.docs) THEN [docs |-> << >>, err |-> ""]
                 ELSE IF n < 0 THEN [docs |-> << >>, err |-> "panic"]
                 ELSE [docs |-> SubSeq(r.docs, n + 1, Len(r.docs)), err |-> ""]
            [] stageOp = "$sort" ->
                 IF stageVal.t # "docval"
                 THEN [docs |-> << >>, err |-> "$sort requires a document"]
                 ELSE [docs |-> SortDocs(m, r.docs, stageVal.f), err |-> ""]
            [] stageOp = "$project" ->
                 IF stageVal.t # "docval"
                 THEN [docs |-> << >>, err |-> "$project requires a document"]
                 ELSE [docs |-> projectDocs(PureDocs(m, r.docs), stageVal.f),
                       err |-> ""]
            [] stageOp = "$group" ->
                 IF stageVal.t # "docval"
                 THEN [docs |-> << >>, err |-> "$group requires a document"]
                 ELSE [docs |-> groupDocs(PureDocs(m, r.docs), stageVal.f),
                       err |-> ""]
            [] OTHER -> [docs |-> << >>, err |-> "unsupported pipeline stage"]

RECURSIVE runStages(_, _, _)
runStages(m, r, pipeline) ==
  IF pipeline = << >> THEN r
  ELSE runStages(m, runStage(m, r, Head(pipeline)), Tail(pipeline))

RunPipeline(m, docs, pipeline) == runStages(m, [docs |-> docs, err |-> ""], pipeline)

\* Aggregate: the pipeline run over a copy of the collection's headers.
AggregateOp(m, s, db, coll, pipeline) ==
  IF ~HasColl(s, db, coll) THEN [docs |-> << >>, err |-> ""]
  ELSE RunPipeline(m, s[db][coll].Documents, pipeline)

ListDatabases(s) == DOMAIN s

ListCollections(s, db) == IF db \in DOMAIN s THEN DOMAIN s[db] ELSE {}

DropDatabaseOp(s, db) == [s |-> Drop(s, db), save |-> TRUE]

CreateCollectionOp(s, db, coll) == [s |-> GetOrCreateColl(s, db, coll), save |-> TRUE]

DropCollectionOp(s, db, coll) ==
  IF db \notin DOMAIN s THEN [s |-> s, save |-> FALSE]
  ELSE [s |-> Put(s, db, Drop(s[db], coll)), save |-> TRUE]

\* The index list after CreateIndexes: a spec is added unless its name is taken.
addIndexes(indexes, specs) ==
  LET named(sp) == IF sp.Name = "" THEN [sp EXCEPT !.Name = DefaultIndexName(sp.Keys)]
                   ELSE sp
      F[i \in 0..Len(specs)] ==
        IF i = 0 THEN indexes
        ELSE IF \E x \in 1..Len(F[i - 1]) : F[i - 1][x].Name = named(specs[i]).Name
        THEN F[i - 1]
        ELSE Append(F[i - 1], named(specs[i]))
  IN F[Len(specs)]

CreateIndexesOp(s, db, coll, specs) ==
  LET s1 == GetOrCreateColl(s, db, coll)
      c == s1[db][coll]
  IN [s |-> SetColl(s1, db, coll, Collection(c.Documents, addIndexes(c.Indexes, specs))),
      save |-> TRUE]

\* ListIndexes: the default _id_ index, then the stored ones.
ListIndexes(s, db, coll) ==
  IF ~HasColl(s, db, coll) THEN << >>
  ELSE <<IndexSpec("_id_", <<E("_id", I32(1))>>, FALSE)>> \o s[db][coll].Indexes

DropIndexesOp(s, db, coll, name) ==
  IF ~HasColl(s, db, coll) THEN [s |-> s, save |-> FALSE]
  ELSE LET c == s[db][coll]
           hits == {i \in 1..Len(c.Indexes) : c.Indexes[i].Name = name}
       IN IF name = "*"
          THEN [s |-> SetColl(s, db, coll, Collection(c.Documents, << >>)), save |-> TRUE]
          ELSE IF hits = {} THEN [s |-> s, save |-> FALSE]
          ELSE LET i == CHOOSE i \in hits : \A j \in hits : i <= j
               IN [s |-> SetColl(s, db, coll,
                                 Collection(c.Documents, RemoveIndex(c.Indexes, i))),
                   save |-> TRUE]

----------------------------------------------------------------------------
\* The garbage collector: arrays no header reaches are dropped and the rest
\* renumbered in order, so that a state does not depend on dead arrays.

RefsOf(arr) == {arr[i].v.addr : i \in {j \in 1..Len(arr) : arr[j].v.t = "doc"}} \ {0}

RECURSIVE Reach(_, _)
Reach(m, R) ==
  LET next == R \cup UNION {RefsOf(m[a]) : a \in R}
  IN IF next = R THEN R ELSE Reach(m, next)

NewAddr(R, a) == IF a = 0 THEN 0 ELSE Cardinality({b \in R : b <= a})
Moved(R, v) == IF v.t = "doc" THEN DocRef(NewAddr(R, v.addr), v.len) ELSE v
MovedDocs(R, docs) == [i \in 1..Len(docs) |-> Moved(R, docs[i])]

StoreRoots(s) ==
  UNION {UNION {{s[db][c].Documents[i].addr : i \in 1..Len(s[db][c].Documents)}
                : c \in DOMAIN s[db]} : db \in DOMAIN s}

Live(m, s, held) ==
  Reach(m, (StoreRoots(s) \cup {held[i].addr : i \in 1..Len(held)}) \ {0})

CollectMem(m, R) ==
  [n \in 1..Cardinality(R) |->
     LET a == CHOOSE a \in R : NewAddr(R, a) = n
     IN [j \in 1..Len(m[a]) |-> E(m[a][j].k, Moved(R, m[a][j].v))]]

CollectStore(s, R) ==
  [db \in DOMAIN s |-> [c \in DOMAIN s[db] |->
     Collection(MovedDocs(R, s[db][c].Documents), s[db][c].Indexes)]]

----------------------------------------------------------------------------
\* The inputs of the model.

DBNames == {"db"}
CollNames == {"c"}

Doc(fs) == DocVal(fs)
D1 == Doc(<<E("_id", Str("x")), E("a", I32(1))>>)
D2 == Doc(<<E("_id", Str("y")), E("a", I32(1))>>)
D3 == Doc(<<E("a", I64(2))>>)
Batches == {<<D1>>, <<D2>>, <<D3>>, <<D1, D2>>, <<D1, D1>>, <<D3, D1>>}

Filters == {Doc(<<E("a", I32(1))>>),
            Doc(<<E("_id", Null)>>),
            Doc(<<E("a", I32(2)), E("$or", Arr(<<Doc(<< >>)>>))>>)}

SetA1 == Doc(<<E("$set", Doc(<<E("a", I32(1))>>))>>)
Updates == {SetA1, Doc(<<E("a", I32(2))>>)}

\* updateOne, updateMany and an updateOne with upsert.
UpdateModes == {[multi |-> FALSE, upsert |-> FALSE], [multi |-> TRUE, upsert |-> FALSE],
                [multi |-> FALSE, upsert |-> TRUE]}

Sorts == {<< >>, <<E("a", I32(-1))>>}

IndexSpecs == {IndexSpec("a_1", <<E("a", I32(1))>>, TRUE),
               IndexSpec("", <<E("a", I32(-1))>>, FALSE)}
IndexNames == {"a_1", "*"}

\* The outcomes of the file write and rename of a save: TRUE when both succeed.
IOOutcomes == {TRUE}

\* The reading of the clock in $currentDate.
Now == 1

\* The documents of a loaded store placed in the heap of the new engine.
RECURSIVE materialiseDocs(_, _, _)
materialiseDocs(m, docs, acc) ==
  IF docs = << >> THEN [m |-> m, docs |-> acc]
  ELSE LET r == Materialise(m, Head(docs))
       IN materialiseDocs(r.m, Tail(docs), Append(acc, r.d))

RECURSIVE loadColls(_, _, _, _)
loadColls(m, s, loaded, todo) ==
  IF todo = {} THEN [m |-> m, s |-> s]
  ELSE LET p == CHOOSE p \in todo : TRUE
           c == loaded[p[1]][p[2]]
           r == materialiseDocs(m, c.Documents, << >>)
       IN loadColls(r.m, SetColl(s, p[1], p[2], Collection(r.docs, c.Indexes)),
                    loaded, todo \ {p})

----------------------------------------------------------------------------
\* The state.

VARIABLES
  data,      \* Engine.data: the live store
  mem,       \* the heap of backing arrays
  file,      \* the data file at Engine.filePath
  nextOid,   \* the counter behind bson.NewObjectID
  held,      \* the documents a caller holds from its latest read
  snap,      \* what those documents read when they were returned
  last,      \* the latest engine call: its name, arguments and results
  calls,     \* the number of engine calls made
  tmp,       \* the file at Engine.filePath + ".tmp"
  saving,    \* where a save in progress stands
  mu,        \* Engine.mu: the writer that holds or awaits it, and its readers
  conns      \* each connection's engine call and its position in it

vars == <<data, mem, file, nextOid, held, snap, last, calls, tmp, saving, mu, conns>>

\* The connections.
Conns == 1..NumConns

\* An engine built by engine.New on data file f.
Loaded(f) ==
  LET loaded == LoadStore(f)
  IN loadColls(<< >>, [db \in DOMAIN loaded |-> EmptyMap], loaded,
               {p \in DBNames \X CollNames : HasColl(loaded, p[1], p[2])})

\* The data files the engine is started on: none, and one that an earlier
\* run saved with a document and a unique index on a.
StoreA == [db \in {"db"} |-> [c \in {"c"} |->
             Collection(<<D1>>, <<IndexSpec("a_1", <<E("a", I32(1))>>, TRUE)>>)]]
InitFiles == {NoFile, FileOf(marshalStoreJSON(<< >>, StoreA))}

Init ==
  /\ file \in InitFiles
  /\ data = Loaded(file).s
  /\ mem = Loaded(file).m
  /\ nextOid = 1
  /\ held = << >>
  /\ snap = << >>
  /\ last = [op |-> "New", err |-> ""]
  /\ calls = 0
  /\ tmp = NoFile
  /\ saving = "idle"
  /\ mu = [w |-> 0, readers |-> {}]
  /\ conns = [p \in Conns |-> [pc |-> "idle", op |-> ""]]

\* handler.go: the status of the reply to a command whose engine call
\* returned err.
errorResp(code, codeName, msg) ==
  [ok |-> 0, errmsg |-> msg, code |-> code, codeName |-> codeName]
Handle(err) ==
  CASE err = "" -> [ok |-> 1]
    [] err = "DuplicateKeyError" -> errorResp(11000, "DuplicateKey", err)
    [] OTHER -> errorResp(2, "BadValue", err)

\* What a call returns besides its error.
Results(r) == [k \in DOMAIN r \ {"s", "m", "oid", "save", "err", "ret"} |-> r[k]]

\* The end of a call whose work on the store gave r: the save when the
\* operation saves, and the call's results as the caller receives them.  hold
\* tells whether the caller keeps the documents it is handed; otherwise it
\* goes on holding those of its earlier read.
Finish(r, hold, ioOk, call) ==
  LET sv == IF r.save THEN SaveStore(r.m, r.s, file, ioOk)
            ELSE [s |-> r.s, file |-> file, err |-> ""]
      err == IF r.err # "" THEN r.err ELSE sv.err
      new == hold /\ err = ""
      out == IF new THEN r.ret ELSE held
      R == Live(r.m, sv.s, out)
  IN /\ (IF r.save THEN TRUE ELSE ioOk)
     /\ calls < MaxCalls
     /\ calls' = calls + 1
     /\ data' = CollectStore(sv.s, R)
     /\ mem' = CollectMem(r.m, R)
     /\ file' = sv.file
     /\ nextOid' = r.oid
     /\ held' = MovedDocs(R, out)
     /\ snap' = IF new THEN PureDocs(r.m, out) ELSE snap
     /\ last' = call @@ Results(r) @@ [err |-> err, reply |-> Handle(err)]
     /\ UNCHANGED <<tmp, saving, mu, conns>>

DocsOf(s, db, coll) == IF HasColl(s, db, coll) THEN s[db][coll].Documents ELSE << >>

Insert(db, coll, batch, ioOk) ==
  Finish(InsertOp(mem, data, db, coll, batch, nextOid), FALSE, ioOk,
         [op |-> "Insert", db |-> db, coll |-> coll, docs |-> batch])

Update(db, coll, filter, update, multi, upsert, ioOk) ==
  Finish(UpdateOp(mem, data, db, coll, filter, update, multi, upsert, Now, nextOid),
         FALSE, ioOk,
         [op |-> "Update", db |-> db, coll |-> coll, filter |-> filter,
          update |-> update, multi |-> multi, upsert |-> upsert])

Delete(db, coll, filter, multi, ioOk) ==
  Finish(DeleteOp(mem, data, db, coll, filter, multi) @@ [oid |-> nextOid], FALSE, ioOk,
         [op |-> "Delete", db |-> db, coll |-> coll, filter |-> filter,
          multi |-> multi])

FindAndModify(db, coll, filter, sort, update, remove, returnNew, upsert, hold, ioOk) ==
  Finish(FindAndModifyOp(mem, data, db, coll, filter, sort, update, remove,
                         returnNew, upsert, Now, nextOid), hold, ioOk,
         [op |-> "FindAndModify", db |-> db, coll |-> coll, filter |-> filter,
          sort |-> sort, update |-> update, remove |-> remove, returnNew |-> returnNew,
          upsert |-> upsert])

\* The operations that only change the store's maps and index lists.
Admin(r, ioOk, call) ==
  Finish([s |-> r.s, m |-> mem, err |-> "", oid |-> nextOid, save |-> r.save],
         FALSE, ioOk, call)

CreateCollection(db, coll, ioOk) ==
  Admin(CreateCollectionOp(data, db, coll), ioOk,
        [op |-> "CreateCollection", db |-> db, coll |-> coll])

DropCollection(db, coll, ioOk) ==
  Admin(DropCollectionOp(data, db, coll), ioOk,
        [op |-> "DropCollection", db |-> db, coll |-> coll])

DropDatabase(db, ioOk) ==
  Admin(DropDatabaseOp(data, db), ioOk, [op |-> "DropDatabase", db |-> db])

CreateIndexes(db, coll, specs, ioOk) ==
  Admin(CreateIndexesOp(data, db, coll, specs), ioOk,
        [op |-> "CreateIndexes", db |-> db, coll |-> coll, specs |-> specs])

DropIndexes(db, coll, name, ioOk) ==
  Admin(DropIndexesOp(data, db, coll, name), ioOk,
        [op |-> "DropIndexes", db |-> db, coll |-> coll, name |-> name])

\* Find hands the selected headers to the caller; the store is not changed.
Find(db, coll, filter, sort, skip, limit) ==
  Finish([s |-> data, m |-> mem, err |-> "", oid |-> nextOid, save |-> FALSE,
          ret |-> FindOp(mem, data, db, coll, filter, sort, skip, limit)],
         TRUE, TRUE, [op |-> "Find", db |-> db, coll |-> coll, filter |-> filter,
                      sort |-> sort, skip |-> skip, limit |-> limit])

\* Aggregate hands the documents the pipeline leaves to the caller.
Aggregate(db, coll, pipeline) ==
  With(AggregateOp(mem, data, db, coll, pipeline), LAMBDA r :
    Finish([s |-> data, m |-> mem, err |-> r.err, oid |-> nextOid, save |-> FALSE,
            ret |-> r.docs],
           TRUE, TRUE, [op |-> "Aggregate", db |-> db, coll |-> coll,
                        pipeline |-> pipeline]))

\* The caller of a read writes a field of a document it was handed.
CallerMutate(i, j) ==
  /\ mem[held[i].addr][j].v # Str("mine")
  /\ mem' = [mem EXCEPT ![held[i].addr][j].v = Str("mine")]
  /\ snap' = PureDocs(mem', held)
  /\ last' = [op |-> "CallerMutate", err |-> ""]
  /\ UNCHANGED <<data, file, nextOid, held, calls, tmp, saving, mu, conns>>

\* engine.New on the data file: a fresh engine replaces the live one.
New ==
  LET r == Loaded(file)
  IN /\ last.op # "New"
     /\ ~LoadFails(file)
     /\ calls < MaxCalls
     /\ calls' = calls + 1
     /\ data' = r.s
     /\ mem' = r.m
     /\ held' = << >>
     /\ snap' = << >>
     /\ last' = [op |-> "New", err |-> ""]
     /\ UNCHANGED <<file, nextOid, tmp, saving, mu, conns>>

Next ==
  \/ \E db \in DBNames, coll \in CollNames, batch \in Batches, ioOk \in IOOutcomes :
        Insert(db, coll, batch, ioOk)
  \/ \E db \in DBNames, coll \in CollNames, filter \in Filters, update \in Updates,
        mode \in UpdateModes, ioOk \in IOOutcomes :
        Update(db, coll, filter, update, mode.multi, mode.upsert, ioOk)
  \/ \E db \in DBNames, coll \in CollNames, filter \in Filters, multi \in BOOLEAN,
        ioOk \in IOOutcomes :
        Delete(db, coll, filter, multi, ioOk)
  \/ \E db \in DBNames, coll \in CollNames, filter \in Filters,
        upsert \in BOOLEAN, ioOk \in IOOutcomes :
        FindAndModify(db, coll, filter, << >>, SetA1, FALSE, FALSE, upsert, FALSE, ioOk)
  \/ \E db \in DBNames, coll \in CollNames, filter \in Filters, ioOk \in IOOutcomes :
        FindAndModify(db, coll, filter, << >>, Doc(<< >>), TRUE, FALSE, FALSE, FALSE, ioOk)
  \/ \E db \in DBNames, coll \in CollNames, ioOk \in IOOutcomes :
        CreateCollection(db, coll, ioOk)
  \/ \E db \in DBNames, coll \in CollNames, ioOk \in IOOutcomes :
        DropCollection(db, coll, ioOk)
  \/ \E db \in DBNames, ioOk \in IOOutcomes : DropDatabase(db, ioOk)
  \/ \E db \in DBNames, coll \in CollNames, spec \in IndexSpecs, ioOk \in IOOutcomes :
        CreateIndexes(db, coll, <<spec>>, ioOk)
  \/ \E db \in DBNames, coll \in CollNames, name \in IndexNames, ioOk \in IOOutcomes :
        DropIndexes(db, coll, name, ioOk)
  \/ New

Spec == Init /\ [][Next]_vars

\* A caller that keeps the documents its reads return, writes to them, and
\* goes on calling the engine.
SetA2 == Doc(<<E("$set", Doc(<<E("a", I32(2))>>))>>)

NextAlias ==
  \/ \E db \in DBNames, coll \in CollNames, batch \in {<<D2>>, <<D3>>} :
        Insert(db, coll, batch, TRUE)
  \/ \E db \in DBNames, coll \in CollNames, filter \in Filters, sort \in Sorts :
        Find(db, coll, filter, sort, 0, 0)
  \/ \E db \in DBNames, coll \in CollNames, filter \in Filters,
        update \in {SetA2, Doc(<<E("a", I32(2))>>)}, multi \in BOOLEAN :
        Update(db, coll, filter, update, multi, FALSE, TRUE)
  \/ \E db \in DBNames, coll \in CollNames, filter \in Filters, returnNew \in BOOLEAN :
        FindAndModify(db, coll, filter, << >>, SetA2, FALSE, returnNew, FALSE, TRUE, TRUE)
  \/ \E i \in DOMAIN held : \E j \in 1..held[i].len : CallerMutate(i, j)

SpecAlias == Init /\ [][NextAlias]_vars

----------------------------------------------------------------------------
\* Concurrent connections.  server.go starts one goroutine per connection;
\* each engine call takes Engine.mu on entry and releases it, by defer, when
\* it returns.  The store itself is left out here: a call is its position
\* with respect to the mutex and to the save.

EngineOps == {"Insert", "Find", "Update", "Delete", "Count", "FindAndModify",
              "Aggregate", "ListDatabases", "DropDatabase", "ListCollections",
              "CreateCollection", "DropCollection", "CreateIndexes", "ListIndexes",
              "DropIndexes"}

\* LockKind with the exclusive lock forgotten: every call takes the shared lock.
LockKindShared(op) == "RLock"

\* The first statement of each engine method: e.mu.Lock() or e.mu.RLock().
LockKind(op) ==
  IF op \in {"Insert", "Update", "Delete", "FindAndModify", "DropDatabase",
             "CreateCollection", "DropCollection", "CreateIndexes", "DropIndexes"}
  THEN "Lock" ELSE "RLock"

\* Whether a call of op reaches e.save(): always for the three that end in
\* "return e.save()", on some paths for the other holders of the exclusive
\* lock, never for a read.
MaySave(op) ==
  IF op \in {"DropDatabase", "CreateCollection", "CreateIndexes"} THEN {TRUE}
  ELSE IF LockKind(op) = "Lock" THEN BOOLEAN
  ELSE {FALSE}

At(p, pc) == conns[p].pc = pc
Goto(p, pc) == conns' = [conns EXCEPT ![p].pc = pc]
seqvars == <<data, mem, file, nextOid, held, snap, last, calls, tmp, saving>>

\* Connection p calls engine method op.
Call(p, op) ==
  /\ At(p, "idle")
  /\ conns' = [conns EXCEPT ![p] = [pc |-> "lock", op |-> op]]
  /\ UNCHANGED <<mu, seqvars>>

\* RWMutex.Lock: p becomes the writer once no other writer is, which keeps
\* new readers out, then waits for the readers inside to leave.
Lock(p) ==
  /\ At(p, "lock")
  /\ LockKind(conns[p].op) = "Lock"
  /\ mu.w = 0
  /\ mu' = [mu EXCEPT !.w = p]
  /\ Goto(p, "drain")
  /\ UNCHANGED seqvars

Drained(p) ==
  /\ At(p, "drain")
  /\ mu.readers = {}
  /\ Goto(p, "in")
  /\ UNCHANGED <<mu, seqvars>>

\* RWMutex.RLock: p enters unless a writer holds or awaits the mutex.
RLock(p) ==
  /\ At(p, "lock")
  /\ LockKind(conns[p].op) = "RLock"
  /\ mu.w = 0
  /\ mu' = [mu EXCEPT !.readers = @ \cup {p}]
  /\ Goto(p, "in")
  /\ UNCHANGED seqvars

\* The method's work on the store, up to e.save() or to the return.
Work(p) ==
  /\ At(p, "in")
  /\ \E saves \in MaySave(conns[p].op) : Goto(p, IF saves THEN "write" ELSE "out")
  /\ UNCHANGED <<mu, seqvars>>

\* SaveStore: os.WriteFile of the temp file, then os.Rename; either may fail,
\* and the method returns the error.
WriteTmp(p) ==
  /\ At(p, "write")
  /\ \E ok \in BOOLEAN : Goto(p, IF ok THEN "rename" ELSE "out")
  /\ UNCHANGED <<mu, seqvars>>

Rename(p) ==
  /\ At(p, "rename")
  /\ Goto(p, "out")
  /\ UNCHANGED <<mu, seqvars>>

\* The deferred Unlock or RUnlock at the return.
Unlock(p) ==
  /\ At(p, "out")
  /\ mu' = IF LockKind(conns[p].op) = "Lock" THEN [mu EXCEPT !.w = 0]
           ELSE [mu EXCEPT !.readers = @ \ {p}]
  /\ conns' = [conns EXCEPT ![p] = [pc |-> "idle", op |-> ""]]
  /\ UNCHANGED seqvars

NextLock ==
  \E p \in Conns :
    \/ \E op \in EngineOps : Call(p, op)
    \/ Lock(p)
    \/ Drained(p)
    \/ RLock(p)
    \/ Work(p)
    \/ WriteTmp(p)
    \/ Rename(p)
    \/ Unlock(p)

SpecLock == Init /\ [][NextLock]_vars

----------------------------------------------------------------------------
\* The save, step by step.  SaveStore writes the marshalled store to the
\* temp file and renames the temp file over the data file; os.WriteFile
\* truncates the file it opens and then writes, and the process can fail or
\* die between any two of these steps.  file is what the data file holds and
\* tmp is what the temp file holds.

\* The data file's path: the default of the --file flag.
FilePath == "mongolite.json"

\* TmpPath without the suffix: the store is written straight to the data file.
TmpPathIsTarget(path) == path

\* tmp := path + ".tmp"
TmpPath(path) == path \o ".tmp"

ReadAt(path) == IF path = FilePath THEN file ELSE tmp
WriteAt(path, content) ==
  IF path = FilePath THEN file' = content /\ tmp' = tmp
  ELSE tmp' = content /\ file' = file

\* os.Rename(old, new): new names what old named, and old is gone.
RenameAt(old, new) ==
  IF old = new THEN file' = file /\ tmp' = tmp
  ELSE file' = tmp /\ tmp' = NoFile

\* What SaveStore marshals: the live store, which the call has sorted.
Marshalled == marshalStoreJSON(mem, data)

\* The engine call returns err to its caller.
Return(err) ==
  /\ saving' = "idle"
  /\ last' = [op |-> "Insert", err |-> err, reply |-> Handle(err)]

\* Insert up to its e.save(): the documents are in the live store, and
\* SaveStore has sorted it.  A batch that fails returns without a save.
SaveInsert(batch) ==
  LET r == InsertOp(mem, data, "db", "c", batch, nextOid)
      sorted == IF r.save THEN sortStore(r.m, r.s) ELSE r.s
      R == Live(r.m, sorted, held)
  IN /\ saving = "idle"
     /\ calls < MaxCalls
     /\ calls' = calls + 1
     /\ data' = CollectStore(sorted, R)
     /\ mem' = CollectMem(r.m, R)
     /\ nextOid' = r.oid
     /\ held' = MovedDocs(R, held)
     /\ IF r.save THEN saving' = "open" /\ last' = last ELSE Return(r.err)
     /\ UNCHANGED <<file, tmp, snap, mu, conns>>

\* os.WriteFile opens the temp file, truncating it.
TmpOpen ==
  /\ saving = "open"
  /\ WriteAt(TmpPath(FilePath), Partial(Marshalled, 0))
  /\ saving' = "write"
  /\ UNCHANGED <<data, mem, nextOid, held, snap, last, calls, mu, conns>>

\* A first part of the text reaches the temp file.
TmpWrite ==
  /\ saving = "write"
  /\ WriteAt(TmpPath(FilePath), Partial(Marshalled, 1))
  /\ saving' = "rest"
  /\ UNCHANGED <<data, mem, nextOid, held, snap, last, calls, mu, conns>>

\* The rest of it does, and os.WriteFile returns nil.
TmpWritten ==
  /\ saving = "rest"
  /\ WriteAt(TmpPath(FilePath), FileOf(Marshalled))
  /\ saving' = "rename"
  /\ UNCHANGED <<data, mem, nextOid, held, snap, last, calls, mu, conns>>

\* os.WriteFile fails, at the open or at a write: SaveStore returns the
\* error and leaves the temp file as it is.
TmpFail ==
  /\ saving \in {"open", "write", "rest"}
  /\ Return("write tmp file")
  /\ UNCHANGED <<data, mem, file, tmp, nextOid, held, snap, calls, mu, conns>>

\* os.Rename replaces the data file in one step.
RenameTmp ==
  /\ saving = "rename"
  /\ RenameAt(TmpPath(FilePath), FilePath)
  /\ Return("")
  /\ UNCHANGED <<data, mem, nextOid, held, snap, calls, mu, conns>>

RenameFail ==
  /\ saving = "rename"
  /\ Return("rename tmp to store")
  /\ UNCHANGED <<data, mem, file, tmp, nextOid, held, snap, calls, mu, conns>>

\* The process dies: the live store is lost, the files stay.
Crash ==
  /\ saving # "down"
  /\ saving' = "down"
  /\ data' = NewStore
  /\ mem' = << >>
  /\ held' = << >>
  /\ snap' = << >>
  /\ UNCHANGED <<file, tmp, nextOid, last, calls, mu, conns>>

\* The next run: engine.New loads the data file, and gives no engine when
\* LoadStore fails.
Restart ==
  /\ saving = "down"
  /\ ~LoadFails(ReadAt(FilePath))
  /\ saving' = "idle"
  /\ data' = Loaded(file).s
  /\ mem' = Loaded(file).m
  /\ last' = [op |-> "New", err |-> ""]
  /\ UNCHANGED <<file, tmp, nextOid, held, snap, calls, mu, conns>>

NextSave ==
  \/ \E batch \in Batches : SaveInsert(batch)
  \/ TmpOpen
  \/ TmpWrite
  \/ TmpWritten
  \/ TmpFail
  \/ RenameTmp
  \/ RenameFail
  \/ Crash
  \/ Restart

SpecSave == Init /\ [][NextSave]_vars

----------------------------------------------------------------------------
\* Updates and upserts whose field names and filters carry a '$'.  The
\* documents inserted carry none.

GtFilter == Doc(<<E("a", Doc(<<E("$gt", I32(5))>>))>>)
DollarFilters == {Doc(<<E("a", I32(1))>>), GtFilter}
SetB == Doc(<<E("$set", Doc(<<E("b", I32(1))>>))>>)
DollarUpdates == {SetB,
                  Doc(<<E("$set", Doc(<<E("$x", I32(1))>>))>>),
                  Doc(<<E("$set", Doc(<<E("a.$x", I32(1))>>))>>),
                  Doc(<<E("$rename", Doc(<<E("a", Str("$x"))>>))>>)}

NextDollar ==
  \/ \E batch \in {<<D1>>, <<D3>>} : Insert("db", "c", batch, TRUE)
  \/ \E filter \in DollarFilters, update \in DollarUpdates, mode \in UpdateModes :
        Update("db", "c", filter, update, mode.multi, mode.upsert, TRUE)
  \/ \E filter \in DollarFilters, update \in DollarUpdates, upsert \in BOOLEAN :
        FindAndModify("db", "c", filter, << >>, update, FALSE, TRUE, upsert, FALSE, TRUE)

SpecDollar == Init /\ [][NextDollar]_vars

----------------------------------------------------------------------------
\* Writes and reads of one collection whose documents carry distinct _id
\* values, inserted in an order that is not the order of their sort keys.

DZ == Doc(<<E("_id", Str("z")), E("a", I32(2))>>)
DY == Doc(<<E("_id", Str("y")), E("a", I32(3))>>)
OrderBatches == {<<D1>>, <<D2>>, <<DZ>>, <<DZ, DY, D1>>}
OrderFilters == {Doc(<<E("a", I32(1))>>), Doc(<< >>)}

NextOrder ==
  \/ \E batch \in OrderBatches : Insert("db", "c", batch, TRUE)
  \/ \E filter \in OrderFilters : Find("db", "c", filter, << >>, 0, 0)
  \/ \E filter \in OrderFilters : Update("db", "c", filter, SetB, FALSE, FALSE, TRUE)
  \/ \E filter \in OrderFilters, multi \in BOOLEAN : Delete("db", "c", filter, multi, TRUE)

SpecOrder == Init /\ [][NextOrder]_vars

----------------------------------------------------------------------------
\* ApplyUpdate by itself, on a document d and an update u chosen at the start.

UpdaterDocs == {Doc(<< >>),
                Doc(<<E("_id", Str("x"))>>),
                Doc(<<E("_id", Str("x")), E("a", I32(1))>>),
                Doc(<<E("a", I32(1)), E("_id", Str("x")), E("b", I32(2))>>),
                Doc(<<E("a", I32(1))>>),
                Doc(<<E("_id", Null), E("a", I32(1))>>)}
UpdaterUpdates == {Doc(<< >>),
                   Doc(<<E("a", I32(2))>>),
                   Doc(<<E("_id", Str("y")), E("a", I32(2))>>),
                   Doc(<<E("a", I32(2)), E("_id", Str("y"))>>),
                   Doc(<<E("b", I32(1))>>),
                   Doc(<<E("", I32(1))>>),
                   Doc(<<E("a", I32(2)), E("$set", Doc(<<E("b", I32(1))>>))>>),
                   SetA1,
                   SetB,
                   Doc(<<E("$bogus", Doc(<<E("a", I32(1))>>))>>)}

\* The engine's variables at rest, with the call to make in last.
Idle(call) ==
  /\ last = call
  /\ data = NewStore
  /\ mem = << >>
  /\ file = NoFile
  /\ nextOid = 1
  /\ held = << >>
  /\ snap = << >>
  /\ calls = 0
  /\ tmp = NoFile
  /\ saving = "idle"
  /\ mu = [w |-> 0, readers |-> {}]
  /\ conns = [p \in Conns |-> [pc |-> "idle", op |-> ""]]

InitUpdater ==
  \E d \in UpdaterDocs, u \in UpdaterUpdates :
     Idle([op |-> "input", doc |-> d, update |-> u])

\* ApplyUpdate(doc, update), the result read through the heap.
ApplyUpdateCall ==
  /\ last.op = "input"
  /\ With(Materialise(<< >>, last.doc), LAMBDA d :
     With(Materialise(d.m, last.update), LAMBDA u :
     With(ApplyUpdate(u.m, d.d, u.d, Now), LAMBDA r :
       last' = [op |-> "ApplyUpdate", doc |-> last.doc, update |-> last.update,
                err |-> r.err,
                result |-> IF r.err = "" THEN Pure(r.m, r.d) ELSE Null])))
  /\ UNCHANGED <<data, mem, file, nextOid, held, snap, calls, tmp, saving, mu, conns>>

NextUpdater == ApplyUpdateCall

SpecUpdater == InitUpdater /\ [][NextUpdater]_vars

----------------------------------------------------------------------------
\* Reads of a collection of several documents: Find, and Aggregate with the
\* pipeline that says the same.

ReadFilters == {Doc(<< >>), Doc(<<E("a", Doc(<<E("$gt", I32(1))>>))>>)}

PipelineOf(filter, sort, skip, limit) ==
  <<Doc(<<E("$match", filter)>>), Doc(<<E("$sort", DocVal(sort))>>),
    Doc(<<E("$skip", I64(skip))>>), Doc(<<E("$limit", I64(limit))>>)>>

NextRead ==
  \/ \E batch \in {<<DZ, DY>>, <<D2>>} : Insert("db", "c", batch, TRUE)
  \/ \E filter \in ReadFilters, sort \in Sorts, skip \in 0..MaxSkip, limit \in 0..MaxLimit :
        Find("db", "c", filter, sort, skip, limit)
  \/ \E filter \in ReadFilters, sort \in Sorts, skip \in 0..MaxSkip, limit \in 1..MaxLimit :
        Aggregate("db", "c", PipelineOf(filter, sort, skip, limit))

SpecRead == Init /\ [][NextRead]_vars

----------------------------------------------------------------------------
\* SortDocs by itself, on three documents chosen at the start: document i is
\* {_id: i} with, after it, a field a holding the i-th of the chosen values,
\* or no field a.

NoValue == [t |-> "none"]
SortValues == {I32(1), I32(2), Str("x"), NoValue}
SortLen == 3
SortSpecs == {<<E("a", I32(1))>>, <<E("a", I32(-1))>>}

SortInput(vals) ==
  [i \in 1..Len(vals) |->
     DocVal(IF vals[i] = NoValue THEN <<E("_id", I32(i))>>
            ELSE <<E("_id", I32(i)), E("a", vals[i])>>)]

InitSort ==
  \E vals \in [1..SortLen -> SortValues], sortSpec \in SortSpecs :
     Idle([op |-> "input", docs |-> SortInput(vals), sort |-> sortSpec])

\* SortDocs(docs, sortSpec) on a slice of the documents, read afterwards.
SortDocsCall ==
  /\ last.op = "input"
  /\ With(materialiseDocs(<< >>, last.docs, << >>), LAMBDA h :
       last' = [op |-> "SortDocs", docs |-> last.docs, sort |-> last.sort, err |-> "",
                result |-> PureDocs(h.m, SortDocs(h.m, h.docs, last.sort))])
  /\ UNCHANGED <<data, mem, file, nextOid, held, snap, calls, tmp, saving, mu, conns>>

NextSort == SortDocsCall

SpecSort == InitSort /\ [][NextSort]_vars

----------------------------------------------------------------------------
\* crud.go: the find and getMore commands of the wire.

\* The limit cmdFind hands to Engine.Find: the command's limit, else its
\* batchSize, else 1 for a singleBatch.
cmdFindLimit(cmd) ==
  LET limit == IF cmd.limit = 0 /\ cmd.batchSize > 0 THEN cmd.batchSize ELSE cmd.limit
  IN IF cmd.singleBatch /\ limit = 0 THEN 1 ELSE limit

\* cmdFind: the reply's firstBatch is what the caller holds afterwards.
cmdFind(db, cmd) ==
  Finish([s |-> data, m |-> mem, oid |-> nextOid, save |-> FALSE,
          err |-> IF cmd.find = "" THEN "find requires a collection name" ELSE "",
          ret |-> IF cmd.find = "" THEN << >>
                  ELSE FindOp(mem, data, db, cmd.find, cmd.filter, cmd.sort, cmd.skip,
                              cmdFindLimit(cmd)),
          cursorId |-> 0],
         TRUE, TRUE, [op |-> "find", db |-> db, cmd |-> cmd])

\* cmdGetMore: an empty nextBatch, whatever the cursor.
cmdGetMore(db, coll) ==
  Finish([s |-> data, m |-> mem, oid |-> nextOid, save |-> FALSE, err |-> "",
          ret |-> << >>, cursorId |-> 0],
         TRUE, TRUE, [op |-> "getMore", db |-> db, coll |-> coll])

FindCommands ==
  [find : {"c", ""}, filter : ReadFilters, sort : Sorts, skip : {0, 1}, limit : {0, 1},
   batchSize : {0, 2}, singleBatch : BOOLEAN]

NextFind ==
  \/ \E batch \in {<<DZ, DY>>, <<D2>>} : Insert("db", "c", batch, TRUE)
  \/ \E cmd \in FindCommands : cmdFind("db", cmd)
  \/ cmdGetMore("db", "c")

SpecFind == Init /\ [][NextFind]_vars

----------------------------------------------------------------------------
\* The connection loop of internal/server: one goroutine per accepted
\* connection reads the peer's messages in order and writes its replies.
\* conns[p] holds the position of p's serve loop, the messages its peer has
\* still to be read (inbox), the replies written to it (out) and the request
\* ids of the commands dispatched to the handler (ran).  The commands are
\* ping, which succeeds, and nosuch, which no init registers; a message
\* whose body is "none" carries no Body section, and one whose body is
\* "truncated" ends before its announced length.  A message whose body is
\* "overrun" holds a document sequence whose size field runs past the end
\* of the message and whose identifier has no terminating zero byte; one
\* whose body is "upsert" holds an update command with upsert set and the
\* filter {"": 1}.

OpReply == 1
OpQuery == 2004
OpMsg == 2013

\* The number of messages a peer sends before it closes.
MaxMsgs == 2

\* msg.FlagBits&2 != 0
MoreToCome(flagBits) == (flagBits \div 2) % 2 = 1

Messages ==
  [opCode : {OpMsg}, flagBits : {0, 2},
   body : {"ping", "nosuch", "none", "truncated"}]
  \cup [opCode : {OpMsg}, flagBits : {0}, body : {"overrun", "upsert"}]
  \cup [opCode : {OpQuery}, flagBits : {0}, body : {"ping", "nosuch", "truncated"}]
  \cup [opCode : {OpReply}, flagBits : {0}, body : {"none"}]

\* What a peer sends: the i-th message carries request id i.
Inboxes ==
  UNION {{[i \in 1..n |-> [opCode |-> f[i].opCode, flagBits |-> f[i].flagBits,
                           body |-> f[i].body, requestId |-> i]] :
          f \in [1..n -> Messages]} : n \in 0..MaxMsgs}

\* The goroutine of the connection panics while it reads or handles msg:
\* ReadOpMsg indexes buf past its end while it looks for the end of the
\* identifier, and Engine.Update indexes byte 0 of the empty field name.
\* Nothing in the program recovers.
Panics(msg) ==
  /\ msg.opCode = OpMsg
  /\ IF msg.body = "upsert"
     THEN UpdateOp(mem, data, "db", "c", Doc(<<E("", I32(1))>>), SetA1, FALSE, TRUE,
                   Now, nextOid).err = "panic"
     ELSE msg.body = "overrun"

\* Handler.Handle on a command document: the reply of the command.
HandleBody(body) ==
  IF body = "ping" THEN [ok |-> 1] ELSE errorResp(59, "CommandNotFound", "no such command")

WriteOpMsg(requestID, responseTo, doc) ==
  [opCode |-> OpMsg, requestId |-> requestID, responseTo |-> responseTo,
   flagBits |-> 0, doc |-> doc]

WriteOpReply(requestID, responseTo, doc) ==
  [opCode |-> OpReply, requestId |-> requestID, responseTo |-> responseTo,
   flagBits |-> 0, doc |-> doc]

\* ListenAndServe has accepted the connections; nothing is read yet.
InitConn ==
  /\ last = [op |-> "accept", requestIDCounter |-> 0]
  /\ data = NewStore
  /\ mem = << >>
  /\ file = NoFile
  /\ nextOid = 1
  /\ held = << >>
  /\ snap = << >>
  /\ calls = 0
  /\ tmp = NoFile
  /\ saving = "idle"
  /\ mu = [w |-> 0, readers |-> {}]
  /\ \E boxes \in [Conns -> Inboxes] :
       conns = [p \in Conns |-> [pc |-> "read", op |-> "", inbox |-> boxes[p],
                                 out |-> << >>, ran |-> << >>]]

\* One turn of p's loop that read a message: the connection is left at pc,
\* having written the replies in wrote and dispatched the commands in cmds.
Served(p, op, pc, wrote, cmds) ==
  /\ conns' = [conns EXCEPT ![p] = [pc |-> pc, op |-> op,
                                    inbox |-> Tail(conns[p].inbox),
                                    out |-> conns[p].out \o wrote,
                                    ran |-> conns[p].ran \o cmds]]
  /\ last' = [op |-> op, conn |-> p,
              requestIDCounter |-> last.requestIDCounter + Len(wrote)]
  /\ UNCHANGED <<data, mem, file, nextOid, held, snap, calls, tmp, saving, mu>>

Reading(p) == conns[p].pc = "read" /\ conns[p].inbox # << >>

\* ReadHeader fails: the peer has closed.  The deferred Close runs.
serveEOF(p) ==
  /\ conns[p].pc = "read"
  /\ conns[p].inbox = << >>
  /\ conns' = [conns EXCEPT ![p].pc = "closed", ![p].op = "EOF"]
  /\ last' = [op |-> "EOF", conn |-> p,
              requestIDCounter |-> last.requestIDCounter]
  /\ UNCHANGED <<data, mem, file, nextOid, held, snap, calls, tmp, saving, mu>>

\* ReadOpMsg or ReadOpQuery fails: serve returns.
serveReadError(p) ==
  /\ Reading(p)
  /\ Head(conns[p].inbox).opCode \in {OpMsg, OpQuery}
  /\ Head(conns[p].inbox).body = "truncated"
  /\ Served(p, "readError", "closed", << >>, << >>)

\* case proto.OpMsg: handleOpMsg, then the next turn of the loop.
handleOpMsg(p) ==
  /\ Reading(p)
  /\ Head(conns[p].inbox).opCode = OpMsg
  /\ Head(conns[p].inbox).body # "truncated"
  /\ ~Panics(Head(conns[p].inbox))
  /\ With(Head(conns[p].inbox), LAMBDA msg :
       IF msg.body = "none"
       THEN Served(p, "handleOpMsg", "read",
                   <<WriteOpMsg(last.requestIDCounter + 1, msg.requestId,
                                [ok |-> 0, errmsg |-> "missing body section"])>>,
                   << >>)
       ELSE IF MoreToCome(msg.flagBits)
       THEN Served(p, "handleOpMsg", "read", << >>, <<msg.requestId>>)
       ELSE Served(p, "handleOpMsg", "read",
                   <<WriteOpMsg(last.requestIDCounter + 1, msg.requestId,
                                HandleBody(msg.body))>>,
                   <<msg.requestId>>))

\* case proto.OpQuery: handleOpQuery, then the next turn of the loop.
handleOpQuery(p) ==
  /\ Reading(p)
  /\ Head(conns[p].inbox).opCode = OpQuery
  /\ Head(conns[p].inbox).body # "truncated"
  /\ With(Head(conns[p].inbox), LAMBDA qry :
       Served(p, "handleOpQuery", "read",
              <<WriteOpReply(last.requestIDCounter + 1, qry.requestId,
                             HandleBody(qry.body))>>,
              <<qry.requestId>>))

\* default: the rest of the message is discarded, the error is written, and
\* the loop takes its next turn.
serveUnsupported(p) ==
  /\ Reading(p)
  /\ Head(conns[p].inbox).opCode \notin {OpMsg, OpQuery}
  /\ With(Head(conns[p].inbox), LAMBDA hdr :
       Served(p, "unsupported", "read",
              <<WriteOpMsg(last.requestIDCounter + 1, hdr.requestId,
                           [ok |-> 0, errmsg |-> "unsupported opcode",
                            code |-> 2])>>,
              << >>))

\* An unrecovered panic in the goroutine of connection p ends the process,
\* and with it every connection.
servePanic(p) ==
  /\ Reading(p)
  /\ Panics(Head(conns[p].inbox))
  /\ conns' = [q \in Conns |->
                IF q = p
                THEN [conns[q] EXCEPT !.pc = "aborted", !.op = "panic",
                                      !.inbox = Tail(@)]
                ELSE [conns[q] EXCEPT !.pc = "aborted"]]
  /\ last' = [op |-> "panic", conn |-> p,
              requestIDCounter |-> last.requestIDCounter]
  /\ UNCHANGED <<data, mem, file, nextOid, held, snap, calls, tmp, saving, mu>>

NextConn ==
  \/ \E p \in Conns : servePanic(p)
  \/ \E p \in Conns : serveEOF(p)
  \/ \E p \in Conns : serveReadError(p)
  \/ \E p \in Conns : handleOpMsg(p)
  \/ \E p \in Conns : handleOpQuery(p)
  \/ \E p \in Conns : serveUnsupported(p)

SpecConn == InitConn /\ [][NextConn]_vars

----------------------------------------------------------------------------
\* FindAndModify on a collection filled by Insert, which takes any _id it is
\* given: a caller that keeps the document it is handed.

DX == Doc(<<E("_id", Str("x")), E("a", I32(2))>>)
ModifyBatches == {<<D1, DX>>, <<DX>>, <<DZ, DY>>, <<D2>>}
ModifyFilters == {Doc(<<E("a", I32(2))>>), Doc(<<E("a", I32(1))>>), Doc(<< >>),
                  Doc(<<E("a", I32(7))>>)}

NextModify ==
  \/ \E batch \in ModifyBatches : Insert("db", "c", batch, TRUE)
  \/ \E filter \in ModifyFilters, sort \in Sorts, returnNew \in BOOLEAN,
        upsert \in BOOLEAN :
        FindAndModify("db", "c", filter, sort, SetB, FALSE, returnNew, upsert,
                      TRUE, TRUE)
  \/ \E filter \in ModifyFilters, sort \in Sorts, upsert \in BOOLEAN :
        FindAndModify("db", "c", filter, sort, Doc(<< >>), TRUE, FALSE, upsert,
                      TRUE, TRUE)

SpecModify == Init /\ [][NextModify]_vars

----------------------------------------------------------------------------
\* ApplyUpdate applied again to its own result with the same update, for the
\* operators $set, $unset and $addToSet.

TwiceDocs == {Doc(<< >>),
              Doc(<<E("_id", Str("x")), E("a", I32(1))>>),
              Doc(<<E("_id", Str("x")), E("a", Arr(<<I32(1)>>))>>),
              Doc(<<E("a", Doc(<<E("b", I32(1))>>))>>),
              Doc(<<E("a", Doc(<<E("b", Arr(<<I32(2)>>))>>)), E("c", I32(3))>>)}
TwiceOps == {"$set", "$unset", "$addToSet"}
TwiceOperands == {Doc(<<E("a", I32(1))>>),
                  Doc(<<E("a.b", I32(1))>>),
                  Doc(<<E("a", I32(1)), E("a.b", I32(2))>>),
                  Doc(<<E("a.b", I32(2)), E("c", I64(1))>>),
                  Doc(<<E("a", Doc(<<E("c", I32(1))>>)), E("a.c", I32(2))>>),
                  Doc(<<E("c", Arr(<<I32(1)>>))>>)}

InitTwice ==
  \E d \in TwiceDocs, op \in TwiceOps, p \in TwiceOperands :
     Idle([op |-> "input", doc |-> d, update |-> Doc(<<E(op, p)>>)])

\* r1 := ApplyUpdate(doc, update); r2 := ApplyUpdate(r1, update).  once is
\* r1 as it reads before the second call.
ApplyUpdateTwice ==
  /\ last.op = "input"
  /\ With(Materialise(<< >>, last.doc), LAMBDA d :
     With(Materialise(d.m, last.update), LAMBDA u :
     With(ApplyUpdate(u.m, d.d, u.d, Now), LAMBDA r1 :
     With(IF r1.err = "" THEN ApplyUpdate(r1.m, r1.d, u.d, Now) ELSE r1, LAMBDA r2 :
       last' = [op |-> "ApplyUpdateTwice", doc |-> last.doc,
                update |-> last.update,
                err1 |-> r1.err,
                once |-> IF r1.err = "" THEN Pure(r1.m, r1.d) ELSE Null,
                err2 |-> r2.err,
                twice |-> IF r2.err = "" THEN Pure(r2.m, r2.d) ELSE Null]))))
  /\ UNCHANGED <<data, mem, file, nextOid, held, snap, calls, tmp, saving, mu, conns>>

NextTwice == ApplyUpdateTwice

SpecTwice == InitTwice /\ [][NextTwice]_vars

----------------------------------------------------------------------------
\* Two engines open on one data file, as a server and a CLI invocation are.
\* Here data[e] and mem[e] are the store and heap of engine e; each was
\* built by engine.New, which reads the file once, and each save writes the
\* whole of the saving engine's store.  last.acked collects the documents
\* whose Insert returned without error.

Engines == {"server", "cli"}
SharedBatches == {<<D2>>, <<DZ>>, <<D2, DZ>>, <<DZ, D1>>}

InitShared ==
  /\ file \in InitFiles
  /\ data = [e \in Engines |-> Loaded(file).s]
  /\ mem = [e \in Engines |-> Loaded(file).m]
  /\ nextOid = 1
  /\ held = << >>
  /\ snap = << >>
  /\ last = [op |-> "New", engine |-> "server", err |-> "", acked |-> << >>]
  /\ calls = 0
  /\ tmp = NoFile
  /\ saving = "idle"
  /\ mu = [w |-> 0, readers |-> {}]
  /\ conns = [p \in Conns |-> [pc |-> "idle", op |-> ""]]

\* Engine e runs Insert: on its own store, then SaveStore on the shared path.
InsertAt(e, batch) ==
  /\ calls < MaxCalls
  /\ calls' = calls + 1
  /\ With(InsertOp(mem[e], data[e], "db", "c", batch, nextOid), LAMBDA r :
     With(IF r.save THEN SaveStore(r.m, r.s, file, TRUE)
          ELSE [s |-> r.s, file |-> file, err |-> ""], LAMBDA sv :
       /\ data' = [data EXCEPT ![e] = sv.s]
       /\ mem' = [mem EXCEPT ![e] = r.m]
       /\ file' = sv.file
       /\ nextOid' = r.oid
       /\ last' = [op |-> "Insert", engine |-> e, err |-> r.err,
                   acked |-> IF r.err = "" THEN last.acked \o batch
                             ELSE last.acked]))
  /\ UNCHANGED <<held, snap, tmp, saving, mu, conns>>

\* A new invocation: engine e is built again by engine.New.
NewAt(e) ==
  /\ last.op # "New"
  /\ calls < MaxCalls
  /\ data' = [data EXCEPT ![e] = Loaded(file).s]
  /\ mem' = [mem EXCEPT ![e] = Loaded(file).m]
  /\ last' = [op |-> "New", engine |-> e, err |-> "", acked |-> last.acked]
  /\ UNCHANGED <<file, nextOid, held, snap, calls, tmp, saving, mu, conns>>

NextShared ==
  \/ \E e \in Engines, batch \in SharedBatches : InsertAt(e, batch)
  \/ \E e \in Engines : NewAt(e)

SpecShared == InitShared /\ [][NextShared]_vars

----------------------------------------------------------------------------
\* Updates that the updater rejects, some of them after operators or
\* documents that it accepted.

DS == Doc(<<E("_id", Str("z")), E("a", Str("s"))>>)
AbortBatches == {<<D2, DS>>, <<DS>>, <<DZ, DY>>}
IncA == Doc(<<E("$inc", Doc(<<E("a", I32(1))>>))>>)
AbortUpdates == {IncA,
                 Doc(<<E("$set", Doc(<<E("a", I32(5))>>)),
                       E("$inc", Doc(<<E("_id", I32(1))>>))>>),
                 Doc(<<E("$set", Doc(<<E("a", I32(5))>>)),
                       E("$bogus", Doc(<<E("a", I32(1))>>))>>),
                 Doc(<<E("$set", I32(1))>>),
                 Doc(<<E("$push", Doc(<<E("a", I32(1))>>))>>)}

NextAbort ==
  \/ \E batch \in AbortBatches : Insert("db", "c", batch, TRUE)
  \/ \E update \in AbortUpdates, multi \in BOOLEAN :
        Update("db", "c", Doc(<< >>), update, multi, FALSE, TRUE)
  \/ \E update \in AbortUpdates, returnNew \in BOOLEAN :
        FindAndModify("db", "c", Doc(<< >>), << >>, update, FALSE, returnNew, FALSE,
                      FALSE, TRUE)

SpecAbort == Init /\ [][NextAbort]_vars

----------------------------------------------------------------------------
\* Updates that store a nested document in several documents, and updates
\* that then write inside the nested document of one of them.  The engine
\* starts on a file that an earlier run saved with two documents.

StoreB == [db \in {"db"} |-> [c \in {"c"} |-> Collection(<<D1, DZ>>, << >>)]]
NestedFiles == {FileOf(marshalStoreJSON(<< >>, StoreB))}

InitNested ==
  /\ file \in NestedFiles
  /\ data = Loaded(file).s
  /\ mem = Loaded(file).m
  /\ nextOid = 1
  /\ held = << >>
  /\ snap = << >>
  /\ last = [op |-> "New", err |-> ""]
  /\ calls = 0
  /\ tmp = NoFile
  /\ saving = "idle"
  /\ mu = [w |-> 0, readers |-> {}]
  /\ conns = [p \in Conns |-> [pc |-> "idle", op |-> ""]]

NestedFilters == {Doc(<< >>), Doc(<<E("_id", Str("x"))>>), Doc(<<E("a", I32(2))>>)}
NestedUpdates == {Doc(<<E("$set", Doc(<<E("n", Doc(<<E("k", I32(1))>>))>>))>>),
                  Doc(<<E("$set", Doc(<<E("n.k", I32(2))>>))>>),
                  Doc(<<E("$set", Doc(<<E("n.j", I32(3))>>))>>),
                  Doc(<<E("n", Doc(<<E("k", I32(1))>>))>>),
                  Doc(<<E("$unset", Doc(<<E("n.k", Str(""))>>))>>)}

NextNested ==
  \/ \E batch \in {<<D2>>, <<DY>>} : Insert("db", "c", batch, TRUE)
  \/ \E filter \in NestedFilters, update \in NestedUpdates, multi \in BOOLEAN :
        Update("db", "c", filter, update, multi, FALSE, TRUE)

SpecNested == InitNested /\ [][NextNested]_vars

----------------------------------------------------------------------------
\* $inc by itself: ApplyUpdate(d, {$inc: {a: v}}) on a document d and a
\* numeric operand v chosen at the start.

IncDocs == {Doc(<< >>),
            Doc(<<E("a", I32(5))>>),
            Doc(<<E("a", I64(7))>>),
            Doc(<<E("a", Dbl(2))>>),
            Doc(<<E("a", Str("s"))>>),
            Doc(<<E("_id", Str("x")), E("a", I32(1))>>),
            Doc(<<E("a", Null)>>),
            Doc(<<E("b", I32(1))>>)}
IncValues == {I32(1), I32(-1), I32(3), I64(2), I64(0), Dbl(1), Dbl(3)}

InitInc ==
  \E d \in IncDocs, v \in IncValues : Idle([op |-> "input", doc |-> d, val |-> v])

incFieldCall ==
  /\ last.op = "input"
  /\ With(Materialise(<< >>, last.doc), LAMBDA d :
     With(Materialise(d.m, Doc(<<E("$inc", Doc(<<E("a", last.val)>>))>>)), LAMBDA u :
     With(ApplyUpdate(u.m, d.d, u.d, Now), LAMBDA r :
       last' = [op |-> "incField", doc |-> last.doc, val |-> last.val,
                err |-> r.err,
                result |-> IF r.err = "" THEN Pure(r.m, r.d) ELSE Null])))
  /\ UNCHANGED <<data, mem, file, nextOid, held, snap, calls, tmp, saving, mu, conns>>

NextInc == incFieldCall

SpecInc == InitInc /\ [][NextInc]_vars

----------------------------------------------------------------------------
\* The $project stage by itself, on one document and a spec chosen at the
\* start.

ProjectDocs == {Doc(<<E("_id", Str("x")), E("a", I32(1)), E("b", I32(2)), E("c", I32(3))>>),
                Doc(<<E("a", I32(1)), E("c", I32(3))>>),
                Doc(<<E("_id", Str("y")), E("b", Str("s"))>>),
                Doc(<<E("b", I32(2))>>),
                Doc(<< >>)}
ProjectSpecs == {<< >>,
                 <<E("a", I32(1))>>,
                 <<E("a", I32(0))>>,
                 <<E("a", I32(1)), E("_id", I32(0))>>,
                 <<E("_id", I32(0))>>,
                 <<E("_id", I32(0)), E("b", I32(1))>>,
                 <<E("_id", I32(1)), E("b", I32(0))>>,
                 <<E("a", I32(1)), E("b", I32(1))>>,
                 <<E("a", I32(0)), E("b", I32(0))>>,
                 <<E("b", I32(0)), E("a", I32(1))>>,
                 <<E("a", I32(1)), E("b", I32(0))>>,
                 <<E("c", I64(1)), E("a", Dbl(1))>>,
                 <<E("b", I32(1)), E("a", I32(1))>>}

InitProject ==
  \E d \in ProjectDocs, spec \in ProjectSpecs :
     Idle([op |-> "input", doc |-> d, spec |-> spec])

projectDocsCall ==
  /\ last.op = "input"
  /\ With(RunPipeline(<< >>, <<last.doc>>, <<Doc(<<E("$project", Doc(last.spec))>>)>>),
          LAMBDA r :
       last' = [op |-> "projectDocs", doc |-> last.doc, spec |-> last.spec,
                err |-> r.err, result |-> r.docs])
  /\ UNCHANGED <<data, mem, file, nextOid, held, snap, calls, tmp, saving, mu, conns>>

NextProject == projectDocsCall

SpecProject == InitProject /\ [][NextProject]_vars

----------------------------------------------------------------------------
\* The $group stage by itself, on a list of documents and a group spec chosen
\* at the start.

MaxGroupDocs == 3

GroupDocs == {Doc(<<E("_id", Str("x")), E("k", I32(1))>>),
              Doc(<<E("_id", Str("y")), E("k", Str("1"))>>),
              Doc(<<E("_id", Str("z")), E("k", I32(2))>>),
              Doc(<<E("_id", Str("w"))>>),
              Doc(<<E("_id", Str("v")), E("k", I32(1))>>)}

GroupInputs ==
  {s \in UNION {[1..n -> GroupDocs] : n \in 1..MaxGroupDocs} :
     \A i, j \in DOMAIN s : i # j => s[i] # s[j]}

\* Every spec collects the _id of the members of a group under ids.
GroupIDs == {<<E("_id", Str("$k"))>>,
             <<E("_id", Doc(<<E("d", Str("$k"))>>))>>,
             <<E("_id", Str("k"))>>,
             << >>}

GroupSpecs ==
  {id \o <<E("ids", Doc(<<E("$push", Str("$_id"))>>))>> \o rest :
     id \in GroupIDs,
     rest \in {<< >>, <<E("n", Doc(<<E("$sum", I32(1))>>)),
                        E("total", Doc(<<E("$sum", Str("$k"))>>)),
                        E("first", Doc(<<E("$first", Str("$_id"))>>)),
                        E("last", Doc(<<E("$last", Str("$_id"))>>))>>}}

InitGroup ==
  \E docs \in GroupInputs, spec \in GroupSpecs :
     Idle([op |-> "input", docs |-> docs, spec |-> spec])

groupDocsCall ==
  /\ last.op = "input"
  /\ With(RunPipeline(<< >>, last.docs, <<Doc(<<E("$group", Doc(last.spec))>>)>>),
          LAMBDA r :
       last' = [op |-> "groupDocs", docs |-> last.docs, spec |-> last.spec,
                err |-> r.err, result |-> r.docs])
  /\ UNCHANGED <<data, mem, file, nextOid, held, snap, calls, tmp, saving, mu, conns>>

NextGroup == groupDocsCall

SpecGroup == InitGroup /\ [][NextGroup]_vars

----------------------------------------------------------------------------
\* The vocabulary of the properties.

MutatingOps == {"Insert", "Update", "Delete", "FindAndModify", "CreateCollection",
                "DropCollection", "DropDatabase", "CreateIndexes", "DropIndexes"}

Range(seq) == {seq[i] : i \in 1..Len(seq)}
BagOf(seq) == [x \in Range(seq) |-> Cardinality({i \in 1..Len(seq) : seq[i] = x})]

\* Stores s and t, as a reader sees them, agree up to ordering.
SameUpToOrder(s, t) ==
  /\ DOMAIN s = DOMAIN t
  /\ \A db \in DOMAIN s :
       /\ DOMAIN s[db] = DOMAIN t[db]
       /\ \A c \in DOMAIN s[db] :
            /\ BagOf(s[db][c].Documents) = BagOf(t[db][c].Documents)
            /\ BagOf(s[db][c].Indexes) = BagOf(t[db][c].Indexes)

\* What a fresh engine opened on the data file observes.
Fresh(f) == LoadStore(f)

\* The documents and index specs of a collection, as a reader sees them.
DocsIn(m, s, db, coll) ==
  IF HasColl(s, db, coll) THEN PureDocs(m, s[db][coll].Documents) ELSE << >>
IndexesIn(s, db, coll) == IF HasColl(s, db, coll) THEN s[db][coll].Indexes ELSE << >>

HasID(d) == \E i \in 1..Len(d.f) : d.f[i].k = "_id"
IDOf(d) == lookupField(d, "_id").v

\* The value of key k in document d, null when d has no such field.
KeyOf(d, k) == IF lookupField(d, k).ok THEN lookupField(d, k).v ELSE Null
SameKeyTuple(a, b, keys) ==
  \A i \in 1..Len(keys) : valuesEqual(KeyOf(a, keys[i].k), KeyOf(b, keys[i].k))

\* d has the key tuple of one of docs under a unique index among indexes.
Conflicts(docs, indexes, d) ==
  \E x \in 1..Len(indexes) :
     /\ indexes[x].Unique
     /\ \E j \in 1..Len(docs) : SameKeyTuple(docs[j], d, indexes[x].Keys)

\* A batch as it is to be stored: a document without _id gets the next
\* object id in front.
AsStored(batch, oid) ==
  LET F[i \in 0..Len(batch)] ==
        IF i = 0 THEN [docs |-> << >>, oid |-> oid]
        ELSE IF HasID(batch[i])
        THEN [docs |-> Append(F[i - 1].docs, batch[i]), oid |-> F[i - 1].oid]
        ELSE [docs |-> Append(F[i - 1].docs,
                              DocVal(<<E("_id", Oid(F[i - 1].oid))>> \o batch[i].f)),
              oid |-> F[i - 1].oid + 1]
  IN F[Len(batch)].docs

\* The first document of batch sb that conflicts with a document of docs or
\* with an earlier one of the batch; 0 when there is none.
FirstDup(docs, indexes, sb) ==
  LET K == {k \in 1..Len(sb) : Conflicts(docs \o SubSeq(sb, 1, k - 1), indexes, sb[k])}
  IN IF K = {} THEN 0 ELSE CHOOSE k \in K : \A j \in K : k <= j

DuplicateKeyReply == errorResp(11000, "DuplicateKey", "DuplicateKeyError")

----------------------------------------------------------------------------
\* C1: whenever a mutating operation has returned without error, a fresh
\* engine opened on the data file observes the same databases, collections,
\* index specs and documents as the live engine's store, up to ordering.
\* The live store is read here as a save of it would be loaded, so that the
\* file format's treatment of values plays no part.
C1_FreshEngineSeesLiveStore ==
  (last.op \in MutatingOps /\ last.err = "")
    => SameUpToOrder(Fresh(file), Fresh(SaveStore(mem, data, file, TRUE).file))

\* C2: a document returned by a read shares no mutable state with the store:
\* a caller's write to a returned document changes no stored document, and
\* no later engine call changes a document that was already returned.
C2_ReturnedDocsAreSnapshots ==
  [][/\ last'.op = "CallerMutate" => PureStore(mem', data') = PureStore(mem, data)
     /\ last'.op # "CallerMutate" => PureDocs(mem', held') = snap']_vars

\* Connection p is between acquiring the mutex and returning.
InCall(p) == conns[p].pc \in {"in", "write", "rename", "out"}

\* C3: while a mutating operation is between acquiring the lock and returning,
\* its save included, no other engine call is inside its critical section;
\* calls that overlap are all reads; and no two connections are in a save,
\* writing or renaming the temp file, at the same time.
C3_WritersExclude ==
  /\ \A p, q \in Conns :
       (p # q /\ InCall(p) /\ InCall(q))
         => (conns[p].op \notin MutatingOps /\ conns[q].op \notin MutatingOps)
  /\ \A p, q \in Conns :
       (conns[p].pc \in {"write", "rename"} /\ conns[q].pc \in {"write", "rename"})
         => p = q

\* A mutating call is writing the temp file while another call, a read,
\* waits for the mutex.
C3_Witness ==
  \E p, q \in Conns :
     /\ conns[p].pc = "write"
     /\ conns[p].op \in MutatingOps
     /\ conns[q].pc = "lock"
     /\ conns[q].op = "Find"

\* C4: an Insert into a collection with a unique index, of a batch one of
\* whose documents has the key tuple of a stored document or of an earlier
\* document of the batch, returns a DuplicateKeyError, replied as ok 0, code
\* 11000, codeName DuplicateKey, and leaves in the collection what was there
\* and the documents before the first such document, nothing else; an Insert
\* with no such document (no unique index, or no equal key tuple) is not
\* rejected as a duplicate, and when it returns without error every document
\* of the batch is in the collection.
C4_UniqueIndexInsert ==
  [][last'.op = "Insert" =>
       LET P == DocsIn(mem, data, last'.db, last'.coll)
           I == IndexesIn(data, last'.db, last'.coll)
           sb == AsStored(last'.docs, nextOid)
           k == FirstDup(P, I, sb)
           Q == DocsIn(mem', data', last'.db, last'.coll)
       IN IF k # 0
          THEN /\ last'.err = "DuplicateKeyError"
               /\ last'.reply = DuplicateKeyReply
               /\ Q = P \o SubSeq(sb, 1, k - 1)
          ELSE /\ last'.err # "DuplicateKeyError"
               /\ last'.err = "" => BagOf(Q) = BagOf(P \o sb)]_vars

\* An Insert of one document was rejected as a duplicate of a stored one.
C4_Witness ==
  /\ last.op = "Insert"
  /\ last.err = "DuplicateKeyError"
  /\ last.reply.code = 11000
  /\ Len(last.docs) = 1
  /\ Conflicts(DocsIn(mem, data, last.db, last.coll),
               IndexesIn(data, last.db, last.coll), last.docs[1])

\* C5: when Insert of a batch fails on a document because of a unique-index
\* violation, the documents before it are in the collection and a fresh
\* engine opened on the file finds them too.
C5_FailedBatchPrefixPersisted ==
  [][(last'.op = "Insert" /\ last'.err = "DuplicateKeyError") =>
       LET P == DocsIn(mem, data, last'.db, last'.coll)
           I == IndexesIn(data, last'.db, last'.coll)
           sb == AsStored(last'.docs, nextOid)
           k == FirstDup(P, I, sb)
       IN \A j \in 1..(k - 1) :
            /\ sb[j] \in Range(DocsIn(mem', data', last'.db, last'.coll))
            /\ sb[j] \in Range(DocsIn(<< >>, Fresh(file'), last'.db, last'.coll))]_vars

\* The document an upsert with this filter and update constructs, given the
\* next object id.
Constructed(filter, update, oid) ==
  LET seed == Materialise(<< >>, DocVal(SelectSeq(filter.f, LAMBDA e : e.k \notin DollarNames)))
      u == Materialise(seed.m, update)
      a == ApplyUpdate(u.m, seed.d, u.d, Now)
  IN AsStored(<<Pure(a.m, a.d)>>, oid)[1]

\* The call that last' records is an upsert that found no document to match.
UpsertInsertion ==
  /\ last'.op \in {"Update", "FindAndModify"}
  /\ last'.upsert
  /\ last'.op = "FindAndModify" => ~last'.remove
  /\ \A d \in Range(DocsIn(mem, data, last'.db, last'.coll)) : ~MatchDoc(d, last'.filter)

\* C6: an upsert insertion whose constructed document has the key tuple of a
\* stored document under a unique index fails with DuplicateKey, code 11000,
\* and adds no document.
C6_UpsertUniqueIndex ==
  [][(/\ UpsertInsertion
      /\ Conflicts(DocsIn(mem, data, last'.db, last'.coll),
                   IndexesIn(data, last'.db, last'.coll),
                   Constructed(last'.filter, last'.update, nextOid))) =>
       /\ last'.err = "DuplicateKeyError"
       /\ last'.reply = DuplicateKeyReply
       /\ DocsIn(mem', data', last'.db, last'.coll)
            = DocsIn(mem, data, last'.db, last'.coll)]_vars

\* C7: every stored document has an _id field and no two documents of a
\* collection have equal _id values.
C7_IdIsAKey ==
  \A db \in DOMAIN data : \A c \in DOMAIN data[db] :
     LET docs == DocsIn(mem, data, db, c)
     IN /\ \A i \in 1..Len(docs) : HasID(docs[i])
        /\ \A i, j \in 1..Len(docs) :
             i # j => ~valuesEqual(IDOf(docs[i]), IDOf(docs[j]))

\* C8: no step of a save, and no failure or death of the process between its
\* steps, leaves the data file with part of a store: after every step the data
\* file is complete and loads, and it holds what it held before the step or
\* the whole of the store being saved.
C8_SaveIsAtomic ==
  [][/\ ~IsPartial(file')
     /\ ~LoadFails(file')
     /\ (file' # file => file' = FileOf(Marshalled))]_vars

\* The process died while the temp file held part of the new store, and the
\* data file still holds the store saved before.
C8_Witness ==
  /\ saving = "down"
  /\ LoadFails(tmp)
  /\ file \in InitFiles
  /\ file.exists

\* C9: loading what SaveStore writes of the live store yields the same
\* databases, collections, index specs and documents (fields, field order,
\* value variants), up to ordering.
C9_LoadOfSaveIsTheStore ==
  SameUpToOrder(LoadStore(SaveStore(mem, data, file, TRUE).file),
                PureStore(mem, data))

\* C10: an Update with upsert that returns without error, when no document
\* matched, added exactly the constructed document, returned matched 0,
\* modified 0 and a non-nil upsertedId equal to that document's _id, and a
\* fresh engine finds the document; when a document matched, it added none
\* and returned a nil upsertedId.
C10_UpsertSemantics ==
  [][(last'.op = "Update" /\ last'.upsert /\ last'.err = "") =>
       LET P == DocsIn(mem, data, last'.db, last'.coll)
           Q == DocsIn(mem', data', last'.db, last'.coll)
           N == Constructed(last'.filter, last'.update, nextOid)
       IN IF \A i \in 1..Len(P) : ~MatchDoc(P[i], last'.filter)
          THEN /\ BagOf(Q) = BagOf(Append(P, N))
               /\ last'.matched = 0
               /\ last'.modified = 0
               /\ last'.upsertedID # Null
               /\ last'.upsertedID = IDOf(N)
               /\ N \in Range(DocsIn(<< >>, Fresh(file'), last'.db, last'.coll))
          ELSE /\ Len(Q) = Len(P)
               /\ last'.upsertedID = Null]_vars

\* A field name beginning with '$' somewhere in value v.
RECURSIVE DollarIn(_)
DollarIn(v) ==
  CASE v.t = "docval" ->
         \E i \in 1..Len(v.f) : v.f[i].k \in DollarNames \/ DollarIn(v.f[i].v)
    [] v.t = "array" -> \E i \in 1..Len(v.e) : DollarIn(v.e[i])
    [] OTHER -> FALSE

AllDocs(m, s) ==
  UNION {Range(PureDocs(m, s[p[1]][p[2]].Documents)) :
           p \in {q \in DBNames \X CollNames : HasColl(s, q[1], q[2])}}

\* C11: when no inserted document has a field name beginning with '$', no
\* stored document has one at any depth, whatever updates, upserts and
\* FindAndModify calls were made.
C11_NoDollarFieldNames == \A d \in AllDocs(mem, data) : ~DollarIn(d)

\* The documents of docs that filter selects, and the others, in order.
Matching(docs, filter) == SelectSeq(docs, LAMBDA d : MatchDoc(d, filter))
NotMatching(docs, filter) == SelectSeq(docs, LAMBDA d : ~MatchDoc(d, filter))

\* docs without its first document that filter selects.
WithoutFirstMatch(docs, filter) ==
  LET K == {i \in 1..Len(docs) : MatchDoc(docs[i], filter)}
      k == CHOOSE i \in K : \A j \in K : i <= j
  IN IF K = {} THEN docs ELSE SubSeq(docs, 1, k - 1) \o SubSeq(docs, k + 1, Len(docs))

\* C12: Delete with multi removes every document the filter selects and no
\* other, the documents that remain keep their relative order, and the count
\* returned is the number removed; without multi it removes the first
\* selected document only; when none is selected it returns 0 and changes
\* neither the store nor the file.
C12_DeleteRemovesTheMatches ==
  [][last'.op = "Delete" =>
       LET P == DocsIn(mem, data, last'.db, last'.coll)
           Q == DocsIn(mem', data', last'.db, last'.coll)
           f == last'.filter
       IN /\ last'.err = ""
          /\ Q = IF last'.multi THEN NotMatching(P, f) ELSE WithoutFirstMatch(P, f)
          /\ last'.deleted = Len(P) - Len(Q)
          /\ Matching(P, f) = << >> =>
               (file' = file /\ PureStore(mem', data') = PureStore(mem, data))]_vars

\* The place of the document with _id id in docs, 0 when there is none.
PlaceOf(docs, id) ==
  LET K == {i \in 1..Len(docs) : IDOf(docs[i]) = id}
  IN IF K = {} THEN 0 ELSE CHOOSE i \in K : \A j \in K : i <= j

\* C13: a collection keeps its documents in insertion order: no engine call
\* changes the relative order of two documents that stay, a document that
\* comes in is placed after those already there, and a Find without sort
\* returns the selected documents in that order.
C13_InsertionOrderIsKept ==
  [][LET P == DocsIn(mem, data, "db", "c")
         Q == DocsIn(mem', data', "db", "c")
     IN /\ \A i, j \in 1..Len(Q) :
             (i < j /\ PlaceOf(P, IDOf(Q[j])) # 0)
               => (PlaceOf(P, IDOf(Q[i])) # 0
                   /\ PlaceOf(P, IDOf(Q[i])) <= PlaceOf(P, IDOf(Q[j])))
        /\ (last'.op = "Find" /\ last'.err = "")
             => snap' = Matching(P, last'.filter)]_vars

\* What ListDatabases and ListCollections show of store s.
Visible(s) ==
  [dbs |-> ListDatabases(s),
   colls |-> {p \in DBNames \X CollNames : p[2] \in ListCollections(s, p[1])}]

\* C14: a database or collection becomes visible only through an Insert, an
\* upsert that inserts, CreateCollection or CreateIndexes: a Delete, and an
\* Update or FindAndModify that selects nothing and does not upsert, leave
\* the visible databases and collections as they were; DropDatabase and
\* DropCollection remove the named one and nothing else.
C14_NamesAppearOnlyByWrites ==
  [][LET V == Visible(data)
         W == Visible(data')
         none == Matching(DocsIn(mem, data, last'.db, last'.coll), last'.filter) = << >>
     IN /\ last'.op = "Delete" => W = V
        /\ (last'.op \in {"Update", "FindAndModify"} /\ none /\ ~last'.upsert) => W = V
        /\ last'.op = "DropIndexes" => W = V
        /\ last'.op = "DropDatabase" =>
             /\ W.dbs = V.dbs \ {last'.db}
             /\ W.colls = {p \in V.colls : p[1] # last'.db}
        /\ last'.op = "DropCollection" =>
             /\ W.dbs = V.dbs
             /\ W.colls = V.colls \ {<<last'.db, last'.coll>>}]_vars

\* u is a replacement document: empty, or its first field name has no '$'.
IsReplacement(u) == u.f = << >> \/ u.f[1].k \notin DollarNames

\* The fields of u with _id set to the _id of d, when d has one.
Replaced(d, u) ==
  IF ~HasID(d) THEN u
  ELSE IF HasID(u)
  THEN DocVal([i \in 1..Len(u.f) |->
                 IF u.f[i].k = "_id" THEN E("_id", IDOf(d)) ELSE u.f[i]])
  ELSE DocVal(Append(u.f, E("_id", IDOf(d))))

\* C15: ApplyUpdate(d, u) with a replacement u gives u's fields with _id set
\* to d's _id and none of d's other fields; an empty u gives a document
\* holding only d's _id.
C15_ReplacementKeepsOnlyId ==
  (last.op = "ApplyUpdate" /\ IsReplacement(last.update))
    => (last.err = "" /\ last.result = Replaced(last.doc, last.update))

\* Elements [skip, skip + limit) of list, all that remain when limit is 0.
Slice(list, skip, limit) ==
  LET hi == IF limit = 0 \/ skip + limit > Len(list) THEN Len(list) ELSE skip + limit
  IN SubSeq(list, skip + 1, hi)

\* C16: Find returns elements [skip, skip + limit) of the sorted list of the
\* documents the filter selects (all that remain when limit is 0, none when
\* skip reaches the number selected or the collection is missing), and for
\* limit > 0 that is what Aggregate returns for the pipeline
\* [$match filter, $sort sort, $skip skip, $limit limit].
C16_FindIsASliceAndThePipeline ==
  [][last'.op = "Find" =>
       LET P == DocsIn(mem, data, last'.db, last'.coll)
           sorted == SortDocs(<< >>, Matching(P, last'.filter), last'.sort)
           agg == AggregateOp(mem, data, last'.db, last'.coll,
                              PipelineOf(last'.filter, last'.sort, last'.skip, last'.limit))
       IN /\ last'.err = ""
          /\ snap' = Slice(sorted, last'.skip, last'.limit)
          /\ last'.limit > 0 => (agg.err = "" /\ PureDocs(mem, agg.docs) = snap')]_vars

\* A Find that skipped one of three selected documents and cut the rest to one
\* has returned the middle one.
C16_Witness ==
  /\ last.op = "Find"
  /\ last.skip = 1
  /\ last.limit = 1
  /\ last.sort # << >>
  /\ Len(DocsIn(mem, data, "db", "c")) = 3
  /\ last.filter = Doc(<< >>)
  /\ Len(snap) = 1

\* C17: SortDocs returns a permutation of its input in which no document
\* compares greater, under the sort spec, than one placed after it, and in
\* which documents that compare equal keep their input order, also when
\* documents lack the sort key or hold values of different types.
C17_SortDocsSortsStably ==
  last.op = "SortDocs" =>
    LET inp == last.docs
        out == last.result
    IN /\ BagOf(out) = BagOf(inp)
       /\ \A i, j \in 1..Len(out) :
            i < j =>
              /\ compareDocs(out[i], out[j], last.sort) <= 0
              /\ compareDocs(out[i], out[j], last.sort) = 0
                   => PlaceOf(inp, IDOf(out[i])) < PlaceOf(inp, IDOf(out[j]))

\* C18: the reply to a find command has cursor id 0 and a firstBatch holding
\* every document the filter selects, after the command's skip and limit,
\* whatever its batchSize; the reply to a getMore has an empty nextBatch.
C18_FirstBatchHoldsEverything ==
  [][/\ (last'.op = "find" /\ last'.cmd.find # "") =>
          LET P == DocsIn(mem, data, last'.db, last'.cmd.find)
              sorted == SortDocs(<< >>, Matching(P, last'.cmd.filter), last'.cmd.sort)
          IN /\ last'.reply = [ok |-> 1]
             /\ last'.cursorId = 0
             /\ snap' = Slice(sorted, last'.cmd.skip, last'.cmd.limit)
     /\ last'.op = "getMore" => (last'.cursorId = 0 /\ snap' = << >>)]_vars

\* The message that a step of connection p has read and handled.
Handled(p) ==
  /\ conns[p].pc = "read"
  /\ conns[p].inbox # << >>
  /\ conns'[p].inbox = Tail(conns[p].inbox)

\* The replies a step has written on connection p.
Written(p) == SubSeq(conns'[p].out, Len(conns[p].out) + 1, Len(conns'[p].out))

\* C19: an OP_MSG request with bit 1 of flagBits (moreToCome) set gets no
\* reply, whether its command succeeds, fails, or the message has no Body
\* section, and its command is executed all the same; an OP_MSG request
\* without that bit gets exactly one reply, whose responseTo is the
\* request's requestId.
C19_MoreToComeGetsNoReply ==
  [][\A p \in Conns :
       (Handled(p) /\ Head(conns[p].inbox).opCode = OpMsg
                   /\ Head(conns[p].inbox).body # "truncated")
       => LET msg == Head(conns[p].inbox)
          IN IF MoreToCome(msg.flagBits)
             THEN /\ Written(p) = << >>
                  /\ msg.body # "none"
                     => conns'[p].ran = Append(conns[p].ran, msg.requestId)
             ELSE /\ Len(Written(p)) = 1
                  /\ Written(p)[1].responseTo = msg.requestId]_vars

\* C20: a message whose opcode is neither OP_MSG nor OP_QUERY gets one error
\* reply, and the connection is then closed: nothing more is read from it
\* or dispatched.
C20_UnsupportedOpcodeCloses ==
  [][\A p \in Conns :
       (Handled(p) /\ Head(conns[p].inbox).opCode \notin {OpMsg, OpQuery})
       => /\ Len(Written(p)) = 1
          /\ Written(p)[1].doc.ok = 0
          /\ conns'[p].pc = "closed"]_vars

\* A reply document of the shape the protocol asks for.
WellFormedReply(doc) ==
  \/ doc.ok = 1
  \/ /\ doc.ok = 0
     /\ {"errmsg", "code", "codeName"} \subseteq DOMAIN doc
     /\ <<doc.code, doc.codeName>> \in
          {<<59, "CommandNotFound">>, <<11000, "DuplicateKey">>,
           <<2, "BadValue">>}

\* C21: every reply document written is a success document with ok = 1 or a
\* failure document with ok = 0 that carries errmsg, code and codeName (59
\* CommandNotFound for an unknown command, 11000 DuplicateKey, 2 BadValue
\* otherwise), on every reply path, the message without a Body section and
\* the unsupported opcode included.
C21_RepliesAreWellFormed ==
  \A p \in Conns : \A i \in 1..Len(conns[p].out) :
     WellFormedReply(conns[p].out[i].doc)

\* ApplyUpdate(d, u) on values.
Applied(d, u) ==
  LET dm == Materialise(<< >>, d)
      um == Materialise(dm.m, u)
      r == ApplyUpdate(um.m, dm.d, um.d, Now)
  IN Pure(r.m, r.d)

\* C22: FindAndModify with a match acts on the first document of the
\* filtered, sorted matches and on no other: with remove it deletes and
\* returns that document; otherwise it updates that document only and
\* returns its pre-image, or its post-image when returnNew is set.  With no
\* match it returns nil and changes nothing, unless upsert is set without
\* remove: then it inserts the new document and returns it.
C22_FindAndModifyActsOnTheFirstMatch ==
  [][(last'.op = "FindAndModify" /\ last'.err = "") =>
       LET P == DocsIn(mem, data, last'.db, last'.coll)
           Q == DocsIn(mem', data', last'.db, last'.coll)
           matches == SortDocs(<< >>, Matching(P, last'.filter), last'.sort)
           target == matches[1]
           post == Applied(target, last'.update)
           N == Constructed(last'.filter, last'.update, nextOid)
       IN IF matches # << >>
          THEN IF last'.remove
               THEN /\ BagOf(Append(Q, target)) = BagOf(P)
                    /\ snap' = <<target>>
               ELSE /\ BagOf(Append(Q, target)) = BagOf(Append(P, post))
                    /\ snap' = IF last'.returnNew THEN <<post>> ELSE <<target>>
          ELSE IF last'.upsert /\ ~last'.remove
               THEN /\ BagOf(Q) = BagOf(Append(P, N))
                    /\ snap' = <<N>>
               ELSE /\ Q = P
                    /\ snap' = << >>]_vars

\* C23: for $set, $unset and $addToSet, applying the same update to the
\* result of a first, successful application gives that result again.
C23_SetUnsetAddToSetAreIdempotent ==
  (last.op = "ApplyUpdateTwice" /\ last.err1 = "")
    => (last.err2 = "" /\ last.twice = last.once)

\* C24: with two engines open on the same data file, the file holds the
\* effect of every write that either of them acknowledged: a later save by
\* the other engine loses none.
C24_NoAcknowledgedWriteIsLost ==
  \A i \in 1..Len(last.acked) :
     last.acked[i] \in Range(DocsIn(<< >>, Fresh(file), "db", "c"))

\* The errors of the updater.
UpdaterErrors ==
  {"update operator requires a document", "unsupported update operator",
   "$inc: not numeric", "$mul: not numeric", "$rename target must be a string",
   "$push: not an array", "$pull: not an array", "$addToSet: not an array"}

\* C25: an Update or FindAndModify that returns an error of the updater
\* leaves the store as it was before the call, in memory and in the file:
\* no document shows an effect of the update, neither the one that failed
\* nor earlier matches of a multi update.
C25_FailedUpdateChangesNothing ==
  [][(last'.op \in {"Update", "FindAndModify"} /\ last'.err \in UpdaterErrors) =>
       /\ DocsIn(mem', data', last'.db, last'.coll)
            = DocsIn(mem, data, last'.db, last'.coll)
       /\ Fresh(file') = Fresh(file)]_vars

\* Every element of sequence s occurs in sequence t at least as often.
SubBag(s, t) ==
  \A x \in Range(s) : Cardinality({i \in 1..Len(s) : s[i] = x})
                        <= Cardinality({i \in 1..Len(t) : t[i] = x})

\* C26: stored documents share no mutable state: an Update changes only
\* documents that its filter selects and leaves every other document of the
\* collection as it was, also after a multi-document Update stored one
\* nested document or array in several documents.
C26_UpdateTouchesOnlySelectedDocs ==
  [][(last'.op = "Update" /\ last'.err = "") =>
       SubBag(NotMatching(DocsIn(mem, data, last'.db, last'.coll), last'.filter),
              DocsIn(mem', data', last'.db, last'.coll))]_vars

\* C27: whatever bytes a connection receives and whatever operands a
\* command carries, a message that cannot be read or handled gets an error
\* reply or closes its own connection; the process is never aborted, and
\* the other connections go on being served.
C27_BadInputNeverAbortsTheProcess ==
  [][\A p \in Conns :
       Handled(p) =>
         /\ conns'[p].pc \in {"read", "closed"}
         /\ \A q \in Conns \ {p} : conns'[q] = conns[q]
         /\ Head(conns[p].inbox).body \in {"truncated", "overrun", "upsert"}
              => \/ conns'[p].pc = "closed"
                 \/ Written(p) # << >> /\ Written(p)[1].doc.ok = 0]_vars

\* What $inc of field a by last.val leaves in a, given the type int of the
\* sum of two integers.
IncGives(int(_)) ==
  LET cur == lookupField(last.doc, "a")
      new == lookupField(last.result, "a")
  IN IF ~cur.ok THEN last.err = "" /\ new.ok /\ new.v = last.val
     ELSE IF ~isNumeric(cur.v) THEN last.err # ""
     ELSE /\ last.err = ""
          /\ new.ok
          /\ IF isInt(cur.v) /\ isInt(last.val)
             THEN new.v = [t |-> int(cur.v), n |-> cur.v.n + last.val.n]
             ELSE new.v = Dbl(cur.v.n + last.val.n)

SameWidth(cur) == cur.t
Int64(cur) == "int64"

\* C28: $inc adds the operand to the current value; with both of them
\* integers the result is an integer of the width of the current value (an
\* int32 incremented by an int32 stays int32), otherwise a double; a missing
\* field is set to the operand and a non-numeric current value is an error.
C28_IncKeepsTheWidth == last.op = "incField" => IncGives(SameWidth)

\* C28 as amended: with both of them integers the result is an int64,
\* whatever their widths.
C28_IncGivesInt64 == last.op = "incField" => IncGives(Int64)

\* An int32 field incremented by an int32: the sum, as an int64.
C28_Witness ==
  /\ last.op = "incField"
  /\ last.doc = Doc(<<E("a", I32(5))>>)
  /\ last.val = I32(3)
  /\ last.result = Doc(<<E("a", I64(8))>>)

\* The places in spec of the fields other than _id whose value is 1 or 0.
ModeFields(spec) ==
  {i \in 1..Len(spec) : spec[i].k # "_id" /\ isNumeric(spec[i].v)
                                          /\ spec[i].v.n \in {0, 1}}

\* C29: $project takes its mode from the first field of the spec, other than
\* _id, whose value is 1 or 0: inclusion when that value is 1, exclusion when
\* it is 0.  A spec with an excluded field before an included one runs in
\* exclusion mode: it keeps every field of the document but those marked 0.
C29_ProjectModeIsTheFirstFlag ==
  (last.op = "projectDocs" /\ ModeFields(last.spec) # {}) =>
    LET first == CHOOSE i \in ModeFields(last.spec) :
                    \A j \in ModeFields(last.spec) : i <= j
    IN /\ last.err = ""
       /\ last.result =
            <<IF last.spec[first].v.n = 1 THEN includeFields(last.doc, last.spec)
              ELSE excludeFields(last.doc, last.spec)>>

\* The key of the i-th input document, as resolveGroupID gives it, and the
\* documents whose keys are equal values.
GroupKey(i) ==
  LET idAt == {n \in 1..Len(last.spec) : last.spec[n].k = "_id"}
  IN resolveGroupID(last.docs[i],
                    IF idAt = {} THEN Null
                    ELSE last.spec[CHOOSE n \in idAt : \A m \in idAt : n <= m].v)

SameGroup(i, j) == valuesEqual(GroupKey(i), GroupKey(j))

GroupLeaders ==
  SelectSeq([i \in 1..Len(last.docs) |-> i],
            LAMBDA i : \A j \in 1..(i - 1) : ~SameGroup(j, i))

GroupMembers(i) ==
  SelectSeq([j \in 1..Len(last.docs) |-> j], LAMBDA j : SameGroup(i, j))

\* C30: $group puts two input documents in the same group exactly when their
\* resolved _id keys are equal values (the number 1 and the string "1" are in
\* different groups), the groups come in the order their first document was
\* seen, and there is one output document per group.
C30_GroupsAreTheEqualKeys ==
  (last.op = "groupDocs" /\ last.err = "") =>
     /\ Len(last.result) = Len(GroupLeaders)
     /\ \A g \in 1..Len(GroupLeaders) :
          /\ lookupField(last.result[g], "_id").v = GroupKey(GroupLeaders[g])
          /\ lookupField(last.result[g], "ids").v =
               Arr([n \in 1..Len(GroupMembers(GroupLeaders[g])) |->
                      lookupField(last.docs[GroupMembers(GroupLeaders[g])[n]], "_id").v])

============================================================================
